---- MODULE Spec2Model ----
(***************************************************************************)
(* One council request of the LLM Council backend (backend/main.py), as a  *)
(* state machine.  The request is served by one of three entry points:     *)
(*   "stream"  send_message_stream.event_generator        (file storage)   *)
(*   "leads"   send_leads_message_stream.event_generator  (MongoDB)        *)
(*   "message" send_message                               (non-streaming)  *)
(* A step of an event generator is the code between two of its awaits, or  *)
(* up to the yield of a stage's complete event; a yield inside a step      *)
(* appends to the event log.  The asyncio tasks the                        *)
(* request creates (scraping, title, stage1, stage2, stage3) and the       *)
(* provider calls inside a stage task advance in steps of their own.       *)
(* Cancellation is asyncio.CancelledError thrown into the generator at the *)
(* await it is suspended in.                                               *)
(***************************************************************************)
EXTENDS Integers, Sequences, FiniteSets, TLC

\* ------------------------------------------------------------------ bounds
\* Size of the request's panel (request.models or COUNCIL_MODELS).
NumModels == 2

\* main.py:475 and main.py:799
HEARTBEAT_INTERVAL == 15

\* Granularity of the clock of SpecTimed, in time units.
TimeQuantum == 7

\* Longest list of models handed to a fan-out.
MaxPanel == 2

\* Longest model identifier, in tokens.
MaxIdLen == 3

\* The per-call timeout (300 s in llm.py:16, 180 s in openrouter.py:91), in
\* ticks of the fan-out's clock.
CallTimeout == 2

\* Most URL mentions in one message text.
MaxMentions == 2

\* Requests served by the process at the same time.
NumRequests == 2

\* Conversation identifiers in use, and the longest message list kept.
MaxConvs == 1

MaxMessages == 2

Models == 1..NumModels

Tasks == {"scraping", "title", "stage1", "stage2", "stage3"}

Stages == {"stage1", "stage2", "stage3"}

VARIABLES
    endpoint,            \* which entry point serves the request
    hasUrls,             \* extract_urls(request.content) is non-empty
    is_first_message,    \* len(conversation["messages"]) == 0 at entry
    request_models,      \* request.models: "empty" ([]) or "panel" (a non-empty list, or None)
    pc,                  \* the await (or yield) the handler is suspended in
    outcome,             \* how the handler ended: "", "returned", "cancelled", "raised", "rejected"
    cancelled,           \* CancelledError has been thrown into the generator
    running_tasks,       \* the generator's running_tasks list
    enriched_content,    \* the text handed to stage 1: "none", "raw" or "enriched"
    task,                \* state of each asyncio task
    result,              \* result of each finished stage task
    calls,               \* provider calls of the stage task now running
    completed,           \* completed_stage{1,2}_models of the current stage
    last_reported_count, \* last_reported_count
    conv,                \* the conversation document: "present" or "deleted"
    messages,            \* conversation["messages"]
    title,               \* conversation["title"]
    dbop,                \* awaited leads_storage update: "idle", "pending", "done"
    dbarg,               \* the assistant message that update carries
    events,              \* the types of the non-heartbeat events yielded so far
    reported,            \* the models of the current stage's model_complete events
    timer,               \* time spent in the current wait_for
    age,                 \* time each task has been unresolved (saturating)
    hbSince,             \* a heartbeat was yielded since the task was created
    starts,              \* how many times each stage task was created
    cancelAt,            \* the await, tasks and starts at the moment of cancellation
    impl,                \* the query_models_parallel in use: "llm" or "openrouter"
    models,              \* its models argument: a list of model identifiers
    on_model_complete,   \* a completion callback is supplied
    credentials,         \* the providers' credentials are configured
    parallel_disabled,   \* GIGACHAT_PARALLEL_DISABLED
    call,                \* one record per element of models: the coroutine of that call
    lock,                \* _gigachat_lock: the call holding it, or 0
    fan_pc,              \* "idle", "gather", "returned" or "raised"
    returned,            \* the dict the fan-out returned
    overtaken,           \* a call resolved while a call earlier in the list was unresolved
    text,                \* process_message_links' argument: the URL mentions of the text
    firecrawl_key,       \* FIRECRAWL_API_KEY is set
    scrape,              \* one record per extracted URL: the scrape_url coroutine
    links_pc,            \* "idle", "gather" or "returned"
    links_result,        \* the tuple process_message_links returned
    sessions,            \* concurrent requests: the provider call each one has in flight
    store_kind,          \* the storage module in use: "file" (storage.py) or "leads" (leads_storage.py)
    docs,                \* the stored conversations, by conversation id
    op,                  \* the last storage call and whether it raised
    site,                \* the generator ranking: "stream" or "leads"
    stage1_answers,      \* stage 1's results handed to stage 2: one [model, ok] per panel model
    label_to_model,      \* the label map stage 2 built
    verdicts,            \* per judge: [st, ordering], st "pending", "failed" or "ok"
    rank_pc,             \* "idle", "judging", "returned" or "reported"
    stage2_event,        \* the stage2_complete event the generator yielded
    entry,               \* the entry point whose stage invocations are observed
    inputs,              \* the question, the user's settings and the request's base prompt
    invocations,         \* the stage invocations made so far, with their arguments
    LEADS_MODE,          \* config.LEADS_MODE of the deployment
    ip_allowed,          \* is_ip_allowed(client_ip) of the client
    bearer,              \* the credentials the client presents
    auth_result,         \* what the last authentication dependency did with them
    thread,              \* the roles of the messages stored in one conversation
    turns                \* the requests made on that conversation, each with its position

reqVars == <<endpoint, hasUrls, is_first_message, request_models>>

genVars == <<pc, outcome, cancelled, running_tasks, enriched_content, completed, last_reported_count>>

taskVars == <<task, result, calls>>

storeVars == <<conv, messages, title, dbop, dbarg>>

obsVars == <<events, reported, timer, age, hbSince, starts, cancelAt>>

councilVars == <<reqVars, genVars, taskVars, storeVars, obsVars>>

fanVars == <<impl, models, on_model_complete, credentials, parallel_disabled, call, lock,
             fan_pc, returned, overtaken>>

linkVars == <<text, firecrawl_key, scrape, links_pc, links_result>>

\* The state of the components a council request or a fan-out does not touch.
shareVars == <<sessions>>

persistVars == <<store_kind, docs, op>>

rankVars == <<site, stage1_answers, label_to_model, verdicts, rank_pc, stage2_event>>

inputVars == <<entry, inputs, invocations>>

authVars == <<LEADS_MODE, ip_allowed, bearer, auth_result>>

turnVars == <<thread, turns>>

extraVars == <<inputVars, authVars, turnVars>>

auxVars == <<linkVars, shareVars, persistVars, rankVars, extraVars>>

offStore == <<councilVars, fanVars, linkVars, shareVars, rankVars, extraVars>>

offInputs == <<councilVars, fanVars, linkVars, shareVars, persistVars, rankVars, authVars, turnVars>>

offAuth == <<councilVars, fanVars, linkVars, shareVars, persistVars, rankVars, inputVars, turnVars>>

offTurns == <<councilVars, fanVars, linkVars, shareVars, persistVars, rankVars, inputVars, authVars>>

offRank == <<councilVars, fanVars, linkVars, shareVars, persistVars, extraVars, site, stage1_answers>>

\* What each component leaves alone.
offLinks == <<councilVars, fanVars, shareVars, persistVars, rankVars, extraVars>>

offSessions == <<councilVars, linkVars, persistVars, rankVars, extraVars, impl, models, on_model_complete, call, fan_pc, returned, overtaken>>

vars == <<councilVars, fanVars, auxVars>>

\* ------------------------------------------------------------------ values
\* task.done(): the task finished, raised or was cancelled.
TaskDone(t) == task[t] \in {"done", "failed", "cancelled"}

\* partial_stage3 = None, and the stage3 local before it is assigned.
NoResult == [model |-> "none", response |-> "none"]

\* main.py:693 and main.py:993
Sentinel == [model |-> "system", response |-> "Processing was interrupted. Please refresh to retry."]

\* The chairman's answer; stage 3 returns a non-null result.
Stage3Result == [model |-> "chairman", response |-> "final"]

NoResults == [stage1 |-> <<>>, stage2 |-> <<>>, stage3 |-> NoResult]

UserMessage == [role |-> "user", content |-> "q"]

AssistantMessage(s1, s2, s3) == [role |-> "assistant", stage1 |-> s1, stage2 |-> s2, stage3 |-> s3]

NoMessage == [role |-> "none"]

NotCancelled == [pc |-> "", task |-> [t \in Tasks |-> "none"], starts |-> [t \in Tasks |-> 0]]

Ev(type) == type

Min(a, b) == IF a < b THEN a ELSE b

\* Python truthiness of a list.
Truthy(list) == Len(list) > 0

\* A conversation that already holds one exchange.
EarlierExchange == <<UserMessage, AssistantMessage(<<[model |-> 1, ok |-> TRUE]>>, <<>>, Stage3Result)>>

Streaming == endpoint \in {"stream", "leads"}


\* ------------------------------------------------------------------ state as a value
\* The mutable state as one record, so that the straight-line code of a handler
\* composes as function application; Commit assigns it to the variables.
Cur == [pc |-> pc, outcome |-> outcome, cancelled |-> cancelled,
        running_tasks |-> running_tasks, enriched_content |-> enriched_content,
        task |-> task, result |-> result,
        calls |-> calls, completed |-> completed,
        last_reported_count |-> last_reported_count, conv |-> conv,
        messages |-> messages, title |-> title, dbop |-> dbop, dbarg |-> dbarg,
        events |-> events, reported |-> reported, timer |-> timer, age |-> age, hbSince |-> hbSince,
        starts |-> starts, cancelAt |-> cancelAt]

Commit(g) ==
    /\ pc' = g.pc /\ outcome' = g.outcome /\ cancelled' = g.cancelled
    /\ running_tasks' = g.running_tasks /\ enriched_content' = g.enriched_content
    /\ task' = g.task /\ result' = g.result
    /\ calls' = g.calls /\ completed' = g.completed
    /\ last_reported_count' = g.last_reported_count /\ conv' = g.conv
    /\ messages' = g.messages /\ title' = g.title /\ dbop' = g.dbop
    /\ dbarg' = g.dbarg /\ events' = g.events /\ reported' = g.reported
    /\ timer' = g.timer
    /\ age' = g.age /\ hbSince' = g.hbSince /\ starts' = g.starts
    /\ cancelAt' = g.cancelAt
    /\ UNCHANGED <<reqVars, fanVars, auxVars>>

Range(seq) == {seq[i] : i \in 1..Len(seq)}

\* yield f"data: {...}\n\n"
Emit(g, ev) == [g EXCEPT !.events = Append(@, ev)]

\* Mutant: the timeout branch yields no heartbeat.
NoHeartbeat(g) == g

\* yield f": heartbeat\n\n": every task whose age is being kept has now seen a
\* heartbeat (a task alive at a timeout has been unresolved for the whole wait).
Heartbeat(g) == [g EXCEPT !.hbSince = [t \in Tasks |-> @[t] \/ g.age[t] > 0]]

\* The coroutine starts running (awaited directly, or wrapped in a task).
Await(g, t) == [g EXCEPT !.task[t] = "running", !.age[t] = 0, !.hbSince[t] = FALSE,
                         !.starts[t] = @ + 1]

\* task = asyncio.create_task(...); running_tasks.append(task)
CreateTask(g, t) == [Await(g, t) EXCEPT !.running_tasks = Append(@, t)]

\* await asyncio.wait_for(asyncio.shield(task), timeout=HEARTBEAT_INTERVAL)
WaitFor(g, p) == [g EXCEPT !.pc = p, !.timer = 0]

\* The wait on task t is over: its clock and heartbeat observations are dropped.
Resolved(g, t) == [g EXCEPT !.age[t] = 0, !.hbSince[t] = FALSE, !.timer = 0]

\* Observations and generator locals that nothing reads once the handler is left.
Forget(g) == [g EXCEPT !.timer = 0, !.age = [t \in Tasks |-> 0],
                       !.hbSince = [t \in Tasks |-> FALSE],
                       !.completed = <<>>, !.last_reported_count = 0, !.reported = <<>>]

\* The handler is left: by return, by CancelledError, or by another exception.
End(g, how) == [Forget(g) EXCEPT !.pc = "end", !.outcome = how]

\* except Exception as e: yield error (main.py:704-707, 1003-1006)
Fail(g) == End(Emit(g, Ev("error")), "returned")

\* if request.models is not None and len(request.models) == 0:
EmptyModelList == request_models = "empty"

\* Mutant: the empty list is noticed only after the user message is stored.
RejectLate(g) == End([g EXCEPT !.messages = Append(@, UserMessage)], "rejected")

\* raise HTTPException(status_code=400, ...): the endpoint is left before the
\* conversation is read and before the generator exists.
Reject(g) == End(g, "rejected")

\* The provider calls a stage task issues: stage 1 and stage 2 query every panel
\* model, stage 2 none when no stage 1 answer succeeded, stage 3 has no fan-out.
CallsOf(g, t) ==
    [m \in Models |->
        IF t = "stage1" \/ (t = "stage2" /\ \E i \in 1..Len(g.result.stage1) : g.result.stage1[i].ok)
        THEN "pending" ELSE "idle"]

\* completed_stageN_models = []; stageN_task = create_task(...); last_reported_count = 0
CreateStageTask(g, t) ==
    [CreateTask(g, t) EXCEPT !.calls = CallsOf(g, t), !.completed = <<>>,
                             !.last_reported_count = 0, !.reported = <<>>]

\* Mutant: completions are counted as reported without being yielded.
DrainSilently(g, type) == [g EXCEPT !.last_reported_count = Len(g.completed)]

\* Mutant: an if in place of the while, one completion per drain.
DrainOne(g, type) ==
    LET n == Min(1, Len(g.completed) - g.last_reported_count)
    IN  [g EXCEPT !.events = @ \o [i \in 1..n |-> Ev(type)],
                  !.reported = @ \o [i \in 1..n |-> g.completed[g.last_reported_count + i]],
                  !.last_reported_count = @ + n]

\* while last_reported_count < len(completed): yield <stage>_model_complete
Drain(g, type) ==
    [g EXCEPT !.events = @ \o [i \in 1..(Len(g.completed) - g.last_reported_count) |-> Ev(type)],
              !.reported = @ \o [i \in 1..(Len(g.completed) - g.last_reported_count) |->
                                     g.completed[g.last_reported_count + i]],
              !.last_reported_count = Len(g.completed)]

ModelEvent(t) == IF t = "stage1" THEN "stage1_model_complete" ELSE "stage2_model_complete"

CompleteEvent(t) == CASE t = "stage1" -> "stage1_complete" [] t = "stage2" -> "stage2_complete"
                      [] t = "stage3" -> "stage3_complete" [] t = "title" -> "title_complete"
                      [] OTHER -> "scraping_complete"

\* Mutant: the stage's complete event is yielded before the remaining completions.
ReportStageEarly(g, t) == Drain(Emit(g, Ev(CompleteEvent(t))), ModelEvent(t))

\* Send any remaining model completions, then yield <stage>_complete.
ReportStage(g, t) == Emit(Drain(g, ModelEvent(t)), Ev(CompleteEvent(t)))

WaitPc(t) == CASE t = "scraping" -> "w_scraping" [] t = "title" -> "w_title"
               [] t = "stage1" -> "w_stage1" [] t = "stage2" -> "w_stage2"
               [] OTHER -> "w_stage3"

WaitPcs == {WaitPc(t) : t \in Tasks}

\* The task the generator's current wait_for is on.
Awaited(t) == pc = WaitPc(t)

\* ------------------------------------------------------------------ the streaming generators
\* storage.add_assistant_message(...) then yield complete; in leads mode the
\* update is awaited.
Complete(g) == End(Emit(g, Ev("complete")), "returned")

\* Mutant: complete is yielded without the assistant message being stored.
CompleteUnsaved(g) == Complete(g)

SaveAssistant(g) ==
    LET msg == AssistantMessage(g.result.stage1, g.result.stage2, g.result.stage3)
    IN  IF endpoint = "leads"
        THEN [g EXCEPT !.pc = "a_assistant", !.dbop = "pending", !.dbarg = msg]
        ELSE IF g.conv # "present" THEN Fail(g)
        ELSE Complete([g EXCEPT !.messages = Append(@, msg)])

TitleComplete(g) == SaveAssistant(Emit(Resolved(g, "title"), Ev("title_complete")))

\* title = title_task.result(); update_conversation_title(...); yield title_complete
TitleResolved(g) ==
    IF g.task["title"] # "done" THEN Fail(g)
    ELSE IF endpoint = "leads" THEN [g EXCEPT !.pc = "a_title", !.dbop = "pending"]
    ELSE IF g.conv # "present" THEN Fail(g)
    ELSE TitleComplete([g EXCEPT !.title = "generated"])

\* if title_task: while not title_task.done(): ...
WaitTitle(g) ==
    IF ~is_first_message THEN SaveAssistant(g)
    ELSE IF g.task["title"] \in {"done", "failed", "cancelled"} THEN TitleResolved(g)
    ELSE WaitFor(g, "w_title")

\* Mutant: stage 2 is begun without waiting for the stage 1 task.
AfterCreateStage1Overlap == "y_stage1_complete"

\* Where the generator goes once the stage 1 task is created: into the loop
\* while not stage1_task.done(): await asyncio.wait_for(...)
AfterCreateStage1 == "w_stage1"

\* title task, yield stage1_start, stage1_task = create_task(stage1_collect_responses(...))
BeginStage1(g) ==
    LET g1 == IF is_first_message THEN CreateTask(g, "title") ELSE g
    IN  WaitFor(CreateStageTask(Emit(g1, Ev("stage1_start")), "stage1"), AfterCreateStage1)

\* Mutant: the generator gives up when stage 1 produced no answer.
BeginStage2IfAnswers(g) ==
    IF \A i \in 1..Len(g.result.stage1) : ~g.result.stage1[i].ok THEN Fail(g)
    ELSE WaitFor(CreateStageTask(Emit(g, Ev("stage2_start")), "stage2"), "w_stage2")

\* yield stage2_start; stage2_task = create_task(stage2_collect_rankings(...))
BeginStage2(g) ==
    WaitFor(CreateStageTask(Emit(g, Ev("stage2_start")), "stage2"), "w_stage2")

\* yield stage3_start; stage3_task = create_task(stage3_synthesize_final(...));
\* nothing reads completed_stage2_models from here on.
BeginStage3(g) ==
    WaitFor(CreateTask([Emit(g, Ev("stage3_start")) EXCEPT !.completed = <<>>,
                           !.last_reported_count = 0, !.reported = <<>>],
                       "stage3"), "w_stage3")

\* urls = extract_urls(...); enriched_content = request.content;
\* if urls: yield scraping_start; scraping_task = ...
AfterUserMessage(g) ==
    LET g1 == [g EXCEPT !.enriched_content = "raw"]
    IN  IF hasUrls
        THEN WaitFor(CreateTask(Emit(g1, Ev("scraping_start")), "scraping"), "w_scraping")
        ELSE BeginStage1(g1)

\* storage.add_user_message(...) (raises ValueError when the conversation is gone)
GenStart ==
    /\ Streaming /\ pc = "start"
    /\ Commit(IF EmptyModelList THEN Reject(Cur)
              ELSE IF endpoint = "leads"
              THEN [Cur EXCEPT !.pc = "a_add_user", !.dbop = "pending"]
              ELSE IF conv # "present" THEN Fail(Cur)
              ELSE AfterUserMessage([Cur EXCEPT !.messages = Append(@, UserMessage)]))

\* except asyncio.TimeoutError: (drain) yield heartbeat, and wait again
Timeout(t) ==
    /\ Streaming /\ Awaited(t) /\ ~TaskDone(t) /\ timer = HEARTBEAT_INTERVAL
    /\ Commit(WaitFor(Heartbeat(IF t \in {"stage1", "stage2"}
                                THEN Drain(Cur, ModelEvent(t)) ELSE Cur), pc))

ScrapingTimeout == Timeout("scraping")

Stage1Timeout == Timeout("stage1")

Stage2Timeout == Timeout("stage2")

Stage3Timeout == Timeout("stage3")

TitleTimeout == Timeout("title")

\* enriched_content, link_metadata, scrape_status = scraping_task.result();
\* yield scraping_complete
ScrapingSucceeded(g) ==
    BeginStage1(Emit([g EXCEPT !.enriched_content = "enriched"], Ev("scraping_complete")))

\* Mutant: a scraping failure is left to the generator's outer except Exception.
ScrapingFailedAborts(g) == Fail(g)

\* except Exception as e: yield scraping_error; enriched_content keeps request.content
ScrapingFailed(g) == BeginStage1(Emit(g, Ev("scraping_error")))

ScrapingReturn ==
    /\ Streaming /\ Awaited("scraping") /\ TaskDone("scraping")
    /\ Commit(IF task["scraping"] = "done" THEN ScrapingSucceeded(Resolved(Cur, "scraping"))
              ELSE ScrapingFailed(Resolved(Cur, "scraping")))

Stage1Return ==
    /\ Streaming /\ Awaited("stage1") /\ TaskDone("stage1")
    /\ Commit(IF task["stage1"] # "done" THEN Fail(Cur)
              ELSE [ReportStage(Resolved(Cur, "stage1"), "stage1")
                       EXCEPT !.pc = "y_stage1_complete"])

Stage2Begin ==
    /\ pc = "y_stage1_complete"
    /\ Commit(BeginStage2(Cur))

Stage2Return ==
    /\ Streaming /\ Awaited("stage2") /\ TaskDone("stage2")
    /\ Commit(IF task["stage2"] # "done" THEN Fail(Cur)
              ELSE [ReportStage(Resolved(Cur, "stage2"), "stage2")
                       EXCEPT !.pc = "y_stage2_complete"])

Stage3Begin ==
    /\ pc = "y_stage2_complete"
    /\ Commit(BeginStage3(Cur))

Stage3Return ==
    /\ Streaming /\ Awaited("stage3") /\ TaskDone("stage3")
    /\ Commit(IF task["stage3"] # "done" THEN Fail(Cur)
              ELSE [Emit(Resolved(Cur, "stage3"), Ev("stage3_complete"))
                       EXCEPT !.pc = "y_stage3_complete"])

\* Wait for title generation if it was started; save the assistant message.
AfterStage3 ==
    /\ pc = "y_stage3_complete"
    /\ Commit(WaitTitle(Cur))

TitleReturn ==
    /\ Streaming /\ Awaited("title") /\ TaskDone("title")
    /\ Commit(TitleResolved(Cur))


\* ------------------------------------------------------------------ leads storage awaits
\* The update_one of the awaited leads_storage call takes effect in the store.
DbApply ==
    /\ dbop = "pending"
    /\ Commit([Cur EXCEPT !.dbop = "done",
                          !.messages = IF pc = "a_add_user" THEN Append(@, UserMessage)
                                       ELSE IF pc \in {"a_assistant", "h_assistant"}
                                       THEN Append(@, dbarg) ELSE @,
                          !.title = IF pc = "a_title" THEN "generated" ELSE @])

\* await leads_storage.add_user_message(...) returns
LeadsUserMessageReturn ==
    /\ pc = "a_add_user" /\ dbop = "done"
    /\ Commit(AfterUserMessage([Cur EXCEPT !.dbop = "idle"]))

\* await leads_storage.update_conversation_title(...) returns
LeadsTitleReturn ==
    /\ pc = "a_title" /\ dbop = "done"
    /\ Commit(TitleComplete([Cur EXCEPT !.dbop = "idle"]))

\* await leads_storage.add_assistant_message(...) returns
LeadsAssistantReturn ==
    /\ pc = "a_assistant" /\ dbop = "done"
    /\ Commit(Complete([Cur EXCEPT !.dbop = "idle"]))

\* ------------------------------------------------------------------ cancellation
AwaitPcs == WaitPcs \cup {"a_add_user", "a_title", "a_assistant"}

\* if task.done() and not task.cancelled(): try: ... task.result() except Exception
Finished(g, t) == t \in Range(g.running_tasks) /\ g.task[t] = "done"

\* Mutant: the answers of the calls that resolved so far are taken.
PartialStage1SoFar(g) ==
    IF Finished(g, "stage1") THEN g.result.stage1
    ELSE IF g.task["stage1"] = "running"
    THEN SelectSeq([i \in 1..NumModels |-> [model |-> i, ok |-> g.calls[i] = "ok"]],
                   LAMBDA a : g.calls[a.model] # "pending")
    ELSE <<>>

PartialStage1(g) == IF Finished(g, "stage1") THEN g.result.stage1 ELSE <<>>

\* Mutant: the verdicts of the judges that answered so far are taken.
PartialStage2SoFar(g) ==
    IF Finished(g, "stage2") THEN g.result.stage2
    ELSE IF g.task["stage2"] = "running"
    THEN SelectSeq([i \in 1..NumModels |-> [model |-> i]], LAMBDA v : g.calls[v.model] = "ok")
    ELSE <<>>

PartialStage2(g) == IF Finished(g, "stage2") THEN g.result.stage2 ELSE <<>>

PartialStage3(g) == IF Finished(g, "stage3") THEN g.result.stage3 ELSE NoResult

\* Mutant: the sentinel is stored whatever stage 3 returned.
Stage3AlwaysSentinel(p3) == Sentinel

\* partial_stage3 or {"model": "system", "response": "Processing was interrupted..."}
Stage3OrSentinel(p3) == IF p3 # NoResult THEN p3 ELSE Sentinel

\* if partial_stage1 or partial_stage3:
ShouldSavePartial(p1, p3) == Truthy(p1) \/ p3 # NoResult

PartialMessage(g) ==
    AssistantMessage(PartialStage1(g), PartialStage2(g), Stage3OrSentinel(PartialStage3(g)))

\* Mutant: the disconnection is reported to the client as an error event.
CancelTasksReporting(g) ==
    LET g0 == Emit(g, Ev("error"))
        g1 == [g0 EXCEPT !.task = [t \in Tasks |->
                   IF t \in Range(g0.running_tasks) /\ g0.task[t] = "running"
                   THEN "cancel_requested" ELSE g0.task[t]]]
    IN  IF g.running_tasks # <<>> THEN [Forget(g1) EXCEPT !.pc = "h_gather"]
        ELSE End(g1, "cancelled")

\* for task in running_tasks: if not task.done(): task.cancel()
\* if running_tasks: await asyncio.gather(*running_tasks, return_exceptions=True); raise
CancelTasks(g) ==
    LET g1 == [g EXCEPT !.task = [t \in Tasks |->
                   IF t \in Range(g.running_tasks) /\ g.task[t] = "running"
                   THEN "cancel_requested" ELSE g.task[t]]]
    IN  IF g.running_tasks # <<>> THEN [Forget(g1) EXCEPT !.pc = "h_gather"]
        ELSE End(g1, "cancelled")

\* except asyncio.CancelledError: up to the handler's first await
CancelHandler(g) ==
    IF ~ShouldSavePartial(PartialStage1(g), PartialStage3(g)) THEN CancelTasks(g)
    ELSE IF endpoint = "leads"
    THEN [Forget(g) EXCEPT !.pc = "h_assistant", !.dbop = "pending", !.dbarg = PartialMessage(g)]
    ELSE IF g.conv # "present" THEN End(g, "raised")
    ELSE CancelTasks([g EXCEPT !.messages = Append(@, PartialMessage(g))])

\* The client disconnects: CancelledError is thrown at the generator's await.
\* An awaited update that has not taken effect yet is dropped with the await.
Cancel ==
    /\ Streaming /\ pc \in AwaitPcs /\ ~cancelled
    /\ Commit(CancelHandler([Cur EXCEPT !.cancelled = TRUE, !.dbop = "idle",
                       !.cancelAt = [pc |-> pc, task |-> task, starts |-> starts]]))

\* the handler's await leads_storage.add_assistant_message(...) returns
LeadsPartialReturn ==
    /\ pc = "h_assistant" /\ dbop = "done"
    /\ Commit(CancelTasks([Cur EXCEPT !.dbop = "idle"]))

\* gather returns once every task of running_tasks is finished; raise
HandlerDone ==
    /\ pc = "h_gather" /\ \A t \in Range(running_tasks) : TaskDone(t)
    /\ Commit(End(Cur, "cancelled"))


\* ------------------------------------------------------------------ tasks and provider calls
\* The stage task whose fan-out is in progress.
FanoutStage(t) == t \in {"stage1", "stage2"} /\ task[t] = "running"

\* One model's call resolves, with a response or with None; the fan-out then
\* calls on_model_complete(model, response), which the streaming generators
\* supply (stageN_callback appends the model to completed_stageN_models).
CallResolve(m, ok) ==
    /\ \E t \in Tasks : FanoutStage(t)
    /\ calls[m] = "pending"
    /\ Commit([Cur EXCEPT !.calls[m] = IF ok THEN "ok" ELSE "fail",
                          !.completed = IF Streaming THEN Append(@, m) ELSE @])

AllResolved == \A m \in Models : calls[m] # "pending"

\* Stage 1 returns one entry per requested model, tagged success or failure.
Stage1Results == [i \in 1..NumModels |-> [model |-> i, ok |-> calls[i] = "ok"]]

\* Stage 2 returns a verdict for every judge whose call succeeded.
Stage2Results ==
    LET all == [i \in 1..NumModels |-> [model |-> i, ok |-> calls[i] = "ok"]]
        good == SelectSeq(all, LAMBDA v : v.ok)
    IN  [i \in 1..Len(good) |-> [model |-> good[i].model]]

Stage1Finish ==
    /\ task["stage1"] = "running" /\ AllResolved
    /\ Commit([Cur EXCEPT !.task["stage1"] = "done", !.result.stage1 = Stage1Results,
                          !.calls = [m \in Models |-> "idle"]])

Stage2Finish ==
    /\ task["stage2"] = "running" /\ AllResolved
    /\ Commit([Cur EXCEPT !.task["stage2"] = "done", !.result.stage2 = Stage2Results,
                          !.calls = [m \in Models |-> "idle"]])

Stage3Finish ==
    /\ task["stage3"] = "running"
    /\ Commit([Cur EXCEPT !.task["stage3"] = "done", !.result.stage3 = Stage3Result])

\* process_message_links or generate_conversation_title returns.
SideTaskFinish(t) ==
    /\ t \in {"scraping", "title"} /\ task[t] = "running"
    /\ Commit([Cur EXCEPT !.task[t] = "done"])

\* The coroutine of a task raises; the calls it was waiting for are abandoned.
TaskRaise(t) ==
    /\ task[t] = "running"
    /\ Commit([Cur EXCEPT !.task[t] = "failed",
                          !.calls = IF t \in {"stage1", "stage2"} THEN [m \in Models |-> "idle"] ELSE @])

\* A task whose cancellation was requested ends cancelled.
TaskCancelled(t) ==
    /\ task[t] = "cancel_requested"
    /\ Commit([Cur EXCEPT !.task[t] = "cancelled",
                          !.calls = IF t \in {"stage1", "stage2"} THEN [m \in Models |-> "idle"] ELSE @])

\* Another request of the same owner deletes the conversation file while this
\* one runs.  (A leads conversation is only ever soft-deleted, which changes
\* nothing the updates of a running leads session match.)
DeleteConversation ==
    /\ endpoint # "leads" /\ pc # "end" /\ conv = "present"
    /\ Commit([Cur EXCEPT !.conv = "deleted"])

\* ------------------------------------------------------------------ the non-streaming entry point
\* A failure in send_message leaves it by the exception (HTTP 500).
NsStart ==
    /\ endpoint = "message" /\ pc = "start"
    /\ Commit(IF EmptyModelList THEN Reject(Cur)
              ELSE IF conv # "present" THEN End(Cur, "raised")
              ELSE [Await([Cur EXCEPT !.messages = Append(@, UserMessage)], "scraping")
                       EXCEPT !.pc = "n_links"])

\* run_full_council: the three stages in order, no completion callback.
NsBeginCouncil(g) == [[Await(g, "stage1") EXCEPT !.calls = CallsOf(g, "stage1")] EXCEPT !.pc = "n_council"]

\* enriched_content, ... = await process_message_links(...); if is_first_message: title = await ...
NsLinksReturn ==
    /\ pc = "n_links" /\ TaskDone("scraping")
    /\ Commit(IF task["scraping"] # "done" THEN End(Cur, "raised")
              ELSE IF is_first_message
              THEN [Await(Cur, "title") EXCEPT !.pc = "n_title", !.enriched_content = "enriched"]
              ELSE NsBeginCouncil([Cur EXCEPT !.enriched_content = "enriched"]))

\* title = await generate_conversation_title(...); storage.update_conversation_title(...)
NsTitleReturn ==
    /\ pc = "n_title" /\ TaskDone("title")
    /\ Commit(IF task["title"] # "done" \/ conv # "present" THEN End(Cur, "raised")
              ELSE NsBeginCouncil([Cur EXCEPT !.title = "generated"]))

NsStage1Return ==
    /\ pc = "n_council" /\ TaskDone("stage1") /\ task["stage2"] = "none"
    /\ Commit(IF task["stage1"] # "done" THEN End(Cur, "raised")
              ELSE [Await(Cur, "stage2") EXCEPT !.calls = CallsOf(Cur, "stage2")])

NsStage2Return ==
    /\ pc = "n_council" /\ TaskDone("stage2") /\ task["stage3"] = "none"
    /\ Commit(IF task["stage2"] # "done" THEN End(Cur, "raised")
              ELSE Await(Cur, "stage3"))

\* run_full_council returns; storage.add_assistant_message(...); return
NsCouncilReturn ==
    /\ pc = "n_council" /\ TaskDone("stage3")
    /\ Commit(IF task["stage3"] # "done" \/ conv # "present" THEN End(Cur, "raised")
              ELSE End([Cur EXCEPT !.messages = Append(@,
                            AssistantMessage(result.stage1, result.stage2, result.stage3))],
                       "returned"))

\* ------------------------------------------------------------------ routing and provider adapters
\* A model identifier is a string, kept as the sequence of its pieces: the two
\* provider names the router knows, the separator, and "m" for any other text.
IdTokens == {"gigachat", "yandex", "m", "/"}

RECURSIVE SeqsUpTo(_, _)
SeqsUpTo(S, n) ==
    IF n = 0 THEN {<<>>}
    ELSE LET shorter == SeqsUpTo(S, n - 1)
         IN  shorter \cup {Append(q, x) : q \in {r \in shorter : Len(r) = n - 1}, x \in S}

ModelIds == SeqsUpTo(IdTokens, MaxIdLen)

\* str.startswith
StartsWith(id, prefix) ==
    Len(id) >= Len(prefix) /\ SubSeq(id, 1, Len(prefix)) = prefix

\* Mutant: the provider name is matched without the separator.
RouteByName(id) ==
    IF StartsWith(id, <<"gigachat">>) THEN "gigachat"
    ELSE IF StartsWith(id, <<"yandex">>) THEN "yandex"
    ELSE "openrouter"

\* llm.query_model: the adapter a model identifier is dispatched to.
Route(id) ==
    IF StartsWith(id, <<"gigachat", "/">>) THEN "gigachat"
    ELSE IF StartsWith(id, <<"yandex", "/">>) THEN "yandex"
    ELSE "openrouter"

\* What a provider may answer to a request.
ReplyKinds == {"ok", "http_error", "not_json", "no_choices", "no_message", "network_error"}

\* A request without valid credentials is refused or never answered.
RepliesTo(c) ==
    IF credentials THEN ReplyKinds ELSE {"http_error", "network_error"}

\* The failure value None, and the response dict built from call i's reply.
NoResponse == [ok |-> FALSE, call |-> 0, content |-> "none"]

Response(i, content) == [ok |-> TRUE, call |-> i, content |-> content]

\* The exception of a call that let one escape.
Escaped == [ok |-> FALSE, call |-> 0, content |-> "raised"]

\* except httpx.TimeoutException / except Exception: every exception raised in
\* the adapter's try block is caught.
Caught(adapter, kind) == TRUE

\* The adapter's try block on a reply of the given kind: raise_for_status and
\* response.json() raise; an empty choices/alternatives list returns None;
\* choices[0]['message'] raises KeyError in openrouter and the GigaChat SDK
\* rejects a choice without message, while yandex reads a missing message as
\* the empty text; a timeout or network error raises.
AdapterReturn(adapter, kind, i) ==
    CASE kind = "ok" -> Response(i, "text")
      [] kind = "no_choices" -> NoResponse
      [] kind = "no_message" /\ adapter = "yandex" -> Response(i, "")
      [] OTHER -> IF Caught(adapter, kind) THEN NoResponse ELSE Escaped

\* The adapter checks its credentials before sending anything (gigachat and
\* yandex do; openrouter sends the request with whatever key it has).
ChecksCredentials(adapter) == adapter \in {"gigachat", "yandex"}

\* ------------------------------------------------------------------ the parallel fan-out
NewCall == [st |-> "new", adapter |-> "none", waited |-> 0, ran |-> 0, requests |-> 0,
            response |-> NoResponse, cause |-> "none", callbacks |-> 0,
            abandoned |-> FALSE, late |-> FALSE]

Calls == 1..Len(models)

\* Mutant: the callback is only invoked for a call that produced a response.
CallbackOnSuccess(c) ==
    IF on_model_complete /\ c.response.ok THEN [c EXCEPT !.callbacks = @ + 1] ELSE c

\* if on_model_complete: on_model_complete(model, response)
Callback(c) == IF on_model_complete THEN [c EXCEPT !.callbacks = @ + 1] ELSE c

\* client.post(...) / giga.achat(...): the one outbound request of the call.
SendRequest(c) == [c EXCEPT !.st = "requesting", !.requests = @ + 1, !.ran = 0]

\* query_model returned (or raised); _query_and_callback calls the callback
\* and returns the response.
Finish(c, resp, cause) ==
    IF resp = Escaped
    THEN [c EXCEPT !.st = "raised", !.response = resp, !.cause = cause, !.waited = 0, !.ran = 0]
    ELSE Callback([c EXCEPT !.st = "done", !.response = resp, !.cause = cause,
                            !.waited = 0, !.ran = 0])

\* Mutant: a failed request is sent once more.
RetryOnce(c, resp, cause) ==
    IF ~resp.ok /\ c.st = "requesting" /\ c.requests < 2 THEN SendRequest(c)
    ELSE Finish(c, resp, cause)

\* The adapter is done with the request: no retry.
Settle(c, resp, cause) == Finish(c, resp, cause)

\* async with _gigachat_lock: (only with GIGACHAT_PARALLEL_DISABLED)
NeedsLock(c) == c.adapter = "gigachat" /\ parallel_disabled

\* Mutant: the lock stays with the call that took it.
ReleaseNever(i) == lock

\* async with _gigachat_lock: the lock is given up when the block is left.
Release(i) == IF lock = i THEN 0 ELSE lock

Entered == \A i \in Calls : call[i].st # "new"

\* This step resolves call i while a call earlier in the list is unresolved:
\* the calls complete in another order than the list's.
Overtakes(i) == call'[i].st = "done" /\ \E j \in 1..(i - 1) : call'[j].st # "done"

\* query_models_parallel(models, messages, on_model_complete) is called:
\* tasks = [_query_and_callback(model) for model in models]; gather(*tasks)
FanCall ==
    /\ fan_pc = "idle" /\ impl # "none"
    /\ fan_pc' = "gather"
    /\ UNCHANGED <<councilVars, auxVars, impl, models, on_model_complete, credentials,
                   parallel_disabled, call, lock, returned, overtaken>>

\* The coroutine of call i runs up to its first await: llm routes by the
\* model identifier, openrouter's fan-out calls openrouter.query_model.
Enter(i) ==
    /\ fan_pc = "gather" /\ call[i].st = "new" /\ \A j \in 1..(i - 1) : call[j].st # "new"
    /\ LET a == IF impl = "llm" THEN Route(models[i]) ELSE "openrouter"
           c == [call[i] EXCEPT !.adapter = a]
       IN  IF ChecksCredentials(a) /\ ~credentials
           THEN /\ call' = [call EXCEPT ![i] = Settle(c, NoResponse, "no_credentials")]
                /\ lock' = lock
           ELSE IF NeedsLock(c) /\ lock # 0
           THEN /\ call' = [call EXCEPT ![i] = [c EXCEPT !.st = "queued"]]
                /\ lock' = lock
           ELSE /\ call' = [call EXCEPT ![i] = SendRequest(c)]
                /\ lock' = IF NeedsLock(c) THEN i ELSE lock
    /\ overtaken' = (overtaken \/ Overtakes(i))
    /\ UNCHANGED <<councilVars, auxVars, impl, models, on_model_complete, credentials,
                   parallel_disabled, fan_pc, returned>>

\* A call waiting for _gigachat_lock gets it and sends its request.
LockAcquire(i) ==
    /\ fan_pc = "gather" /\ Entered /\ call[i].st = "queued" /\ lock = 0
    /\ call' = [call EXCEPT ![i] = SendRequest(@)]
    /\ lock' = i
    /\ UNCHANGED <<councilVars, auxVars, impl, models, on_model_complete, credentials,
                   parallel_disabled, fan_pc, returned, overtaken>>

\* The provider answers call i's request (or the connection fails).
ProviderReply(i, kind) ==
    /\ fan_pc = "gather" /\ Entered /\ call[i].st = "requesting"
    /\ kind \in RepliesTo(call[i])
    /\ call' = [call EXCEPT ![i] = Settle(@, AdapterReturn(@.adapter, kind, i), kind)]
    /\ lock' = IF call'[i].st = "requesting" THEN lock ELSE Release(i)
    /\ overtaken' = (overtaken \/ Overtakes(i))
    /\ UNCHANGED <<councilVars, auxVars, impl, models, on_model_complete, credentials,
                   parallel_disabled, fan_pc, returned>>

\* The adapter's own timeout (httpx.AsyncClient(timeout=timeout), GigaChat(timeout=timeout))
\* fires, counted from the moment the request was sent.
AdapterTimeout(i) ==
    /\ fan_pc = "gather" /\ call[i].st = "requesting" /\ call[i].ran = CallTimeout
    /\ call' = [call EXCEPT ![i] = Settle(@, AdapterReturn(@.adapter, "timeout", i), "timeout")]
    /\ lock' = IF call'[i].st = "requesting" THEN lock ELSE Release(i)
    /\ overtaken' = (overtaken \/ Overtakes(i))
    /\ UNCHANGED <<councilVars, auxVars, impl, models, on_model_complete, credentials,
                   parallel_disabled, fan_pc, returned>>

\* openrouter._query_with_timeout: asyncio.wait_for(query_model(...), timeout)
\* cancels the call and returns None.
WaitForTimeout(i) ==
    /\ fan_pc = "gather" /\ impl = "openrouter"
    /\ call[i].st = "requesting" /\ call[i].waited = CallTimeout
    /\ call' = [call EXCEPT ![i] = Finish([@ EXCEPT !.abandoned = TRUE], NoResponse, "abandoned")]
    /\ lock' = Release(i)
    /\ overtaken' = (overtaken \/ Overtakes(i))
    /\ UNCHANGED <<councilVars, auxVars, impl, models, on_model_complete, credentials,
                   parallel_disabled, fan_pc, returned>>

\* The provider's answer to an abandoned call arrives; nobody is waiting for it.
LateReply(i) ==
    /\ fan_pc \in {"gather", "returned"} /\ call[i].abandoned /\ ~call[i].late
    /\ call' = [call EXCEPT ![i].late = TRUE]
    /\ UNCHANGED <<councilVars, auxVars, impl, models, on_model_complete, credentials,
                   parallel_disabled, lock, fan_pc, returned, overtaken>>

\* A timeout that is due fires before more time passes.
TimeoutDue ==
    \E i \in Calls : /\ call[i].st = "requesting"
                     /\ \/ call[i].ran = CallTimeout
                        \/ impl = "openrouter" /\ call[i].waited = CallTimeout

\* One tick passes for every call that is not resolved yet.
FanTick ==
    /\ fan_pc = "gather" /\ Entered /\ ~TimeoutDue
    /\ \E i \in Calls : call[i].st \in {"queued", "requesting"}
    /\ ~(\E i \in Calls : call[i].st = "queued" /\ lock = 0)
    /\ call' = [i \in Calls |->
                  IF call[i].st = "requesting"
                  THEN [call[i] EXCEPT !.ran = @ + 1, !.waited = Min(@ + 1, CallTimeout + 1)]
                  ELSE IF call[i].st = "queued"
                  THEN [call[i] EXCEPT !.waited = Min(@ + 1, CallTimeout + 1)]
                  ELSE call[i]]
    /\ UNCHANGED <<councilVars, auxVars, impl, models, on_model_complete, credentials,
                   parallel_disabled, lock, fan_pc, returned, overtaken>>

\* Mutant: gather is left as soon as one call has failed.
GatherReadyOnFailure ==
    \/ \E i \in Calls : call[i].st = "raised"
    \/ \E i \in Calls : call[i].st = "done" /\ ~call[i].response.ok
    \/ \A i \in Calls : call[i].st = "done"

\* responses = await asyncio.gather(*tasks): gather returns when every
\* coroutine has returned, and raises as soon as one of them raises.
GatherReady ==
    \/ \E i \in Calls : call[i].st = "raised"
    \/ \A i \in Calls : call[i].st = "done"

\* The last position a model identifier occupies in the list.
LastOf(id) == CHOOSE i \in Calls : models[i] = id /\ \A j \in Calls : models[j] = id => j <= i

\* Mutant: the responses are paired with the identifiers in reverse order.
ResponseMapReversed == [id \in Range(models) |-> call[Len(models) + 1 - LastOf(id)].response]

\* {model: response for model, response in zip(models, responses)}
ResponseMap == [id \in Range(models) |-> call[LastOf(id)].response]

Gather ==
    /\ fan_pc = "gather" /\ Entered /\ GatherReady
    /\ IF \E i \in Calls : call[i].st = "raised"
       THEN fan_pc' = "raised" /\ returned' = returned
       ELSE fan_pc' = "returned" /\ returned' = ResponseMap
    /\ UNCHANGED <<councilVars, auxVars, impl, models, on_model_complete, credentials,
                   parallel_disabled, call, lock, overtaken>>

\* ------------------------------------------------------------------ link enrichment
\* A URL mention of the text: a host, written with or without its scheme.
Mentions == {<<"a">>, <<"https://", "a">>, <<"https://", "b">>}

\* if not url.startswith(('http://', 'https://')): f'https://{url}'
Normalize(mention) ==
    IF Head(mention) = "https://" THEN mention ELSE <<"https://">> \o mention

\* list(dict.fromkeys(normalized_urls)): first occurrences, in order.
RECURSIVE Unique(_)
Unique(list) ==
    IF list = <<>> THEN <<>>
    ELSE LET front == Unique(SubSeq(list, 1, Len(list) - 1))
             last == list[Len(list)]
         IN  IF last \in Range(front) THEN front ELSE Append(front, last)

\* extract_urls(text)
extract_urls(t) == Unique([i \in 1..Len(t) |-> Normalize(t[i])])

\* ScrapedLink(url=url, success=..., markdown=...): markdown is None, "" or text.
ScrapedLink(url, success, markdown) == [url |-> url, success |-> success, markdown |-> markdown]

\* What the page of a URL may turn out to hold.
Markdowns == {"", "page"}

NewScrape(url) == [st |-> "new", link |-> ScrapedLink(url, FALSE, "none")]

Urls == 1..Len(scrape)

\* The raw text, as the one part of the message that is not a link block.
RawText == <<"raw">>

\* f'\n\n<link_content url="{link.url}">\n{truncated}\n</link_content>'
LinkBlock(link) == [link_content |-> link.url, markdown |-> link.markdown]

\* enrich_message_with_scraped_content: the text followed by one block per
\* link with success and a non-empty markdown.
RECURSIVE enrich_message_with_scraped_content(_, _)
enrich_message_with_scraped_content(parts, scraped_links) ==
    IF scraped_links = <<>> THEN parts
    ELSE LET link == Head(scraped_links)
         IN  enrich_message_with_scraped_content(
                 IF link.success /\ link.markdown \notin {"none", ""}
                     THEN Append(parts, LinkBlock(link)) ELSE parts,
                 Tail(scraped_links))

\* link.to_dict(): the metadata handed to the client and to the store.
to_dict(link) == [url |-> link.url, success |-> link.success, markdown |-> link.markdown]

\* link_metadata = [link.to_dict() for link in scraped_links]
LinkMetadata(scraped_links) == [i \in 1..Len(scraped_links) |-> to_dict(scraped_links[i])]

\* scrape_status = {link.url: link.success for link in scraped_links}
ScrapeStatus(scraped_links) ==
    [url \in {scraped_links[i].url : i \in 1..Len(scraped_links)} |->
        (CHOOSE i \in 1..Len(scraped_links) : scraped_links[i].url = url) \in
            {i \in 1..Len(scraped_links) : scraped_links[i].success}]

\* process_message_links(text) is called: without URLs it returns at once,
\* otherwise scrape_urls_parallel starts one scrape_url per URL.
LinksCall ==
    /\ links_pc = "idle" /\ scrape = <<>> /\ links_result = <<>>
    /\ LET urls == extract_urls(text)
       IN  IF urls = <<>>
           THEN /\ links_pc' = "returned"
                /\ links_result' = <<RawText, <<>>, <<>>>>
                /\ scrape' = scrape
           ELSE /\ links_pc' = "gather"
                /\ scrape' = [i \in 1..Len(urls) |->
                                 [NewScrape(urls[i]) EXCEPT
                                     !.st = IF firecrawl_key THEN "firecrawl" ELSE "direct"]]
                /\ links_result' = links_result
    /\ UNCHANGED <<offLinks, text, firecrawl_key>>

\* scrape_url: the Firecrawl API answers; anything but success=true falls back
\* to scrape_url_direct.
FirecrawlReply(u, kind, markdown) ==
    /\ links_pc = "gather" /\ scrape[u].st = "firecrawl"
    /\ kind \in {"success", "success_false", "error", "timeout"}
    /\ scrape' = [scrape EXCEPT ![u] =
                    IF kind = "success"
                    THEN [@ EXCEPT !.st = "done", !.link = ScrapedLink(@.url, TRUE, markdown)]
                    ELSE [@ EXCEPT !.st = "direct"]]
    /\ UNCHANGED <<offLinks, text, firecrawl_key, links_pc, links_result>>

\* scrape_url_direct: the page is fetched and parsed, or the request fails.
DirectReply(u, kind, markdown) ==
    /\ links_pc = "gather" /\ scrape[u].st = "direct"
    /\ kind \in {"success", "error", "timeout"}
    /\ scrape' = [scrape EXCEPT ![u] =
                    IF kind = "success"
                    THEN [@ EXCEPT !.st = "done", !.link = ScrapedLink(@.url, TRUE, markdown)]
                    ELSE [@ EXCEPT !.st = "done", !.link = ScrapedLink(@.url, FALSE, "none")]]
    /\ UNCHANGED <<offLinks, text, firecrawl_key, links_pc, links_result>>

\* asyncio.gather returns the links in the order of the URLs;
\* process_message_links builds its tuple and returns.
LinksReturn ==
    /\ links_pc = "gather" /\ \A u \in Urls : scrape[u].st = "done"
    /\ LET scraped_links == [u \in Urls |-> scrape[u].link]
       IN  links_result' = <<enrich_message_with_scraped_content(RawText, scraped_links),
                             LinkMetadata(scraped_links),
                             ScrapeStatus(scraped_links)>>
    /\ links_pc' = "returned"
    /\ UNCHANGED <<offLinks, text, firecrawl_key, scrape>>

\* ------------------------------------------------------------------ concurrent requests
\* Several requests are served by one process: each has one provider call in
\* flight, and all of them go through the same module-level _gigachat_lock.
Sessions == 1..Len(sessions)

\* llm.query_model in request r: the call is routed and its adapter runs up to
\* its first await.
SessionEnter(r) ==
    /\ sessions[r].st = "new"
    /\ LET c == [sessions[r] EXCEPT !.adapter = Route(sessions[r].model)]
       IN  IF ChecksCredentials(c.adapter) /\ ~credentials
           THEN /\ sessions' = [sessions EXCEPT ![r] = Settle(c, NoResponse, "no_credentials")]
                /\ lock' = lock
           ELSE IF NeedsLock(c) /\ lock # 0
           THEN /\ sessions' = [sessions EXCEPT ![r] = [c EXCEPT !.st = "queued"]]
                /\ lock' = lock
           ELSE /\ sessions' = [sessions EXCEPT ![r] = SendRequest(c)]
                /\ lock' = IF NeedsLock(c) THEN r ELSE lock
    /\ UNCHANGED <<offSessions, credentials, parallel_disabled>>

\* The call of request r gets _gigachat_lock and sends its request.
SessionLockAcquire(r) ==
    /\ sessions[r].st = "queued" /\ lock = 0
    /\ sessions' = [sessions EXCEPT ![r] = SendRequest(@)]
    /\ lock' = r
    /\ UNCHANGED <<offSessions, credentials, parallel_disabled>>

\* The provider answers the call of request r, or the call times out.
SessionReply(r, kind) ==
    /\ sessions[r].st = "requesting"
    /\ kind \in RepliesTo(sessions[r]) \cup {"timeout"}
    /\ sessions' = [sessions EXCEPT ![r] = Settle(@, AdapterReturn(@.adapter, kind, r), kind)]
    /\ lock' = Release(r)
    /\ UNCHANGED <<offSessions, credentials, parallel_disabled>>

\* Request r is cancelled (its stage task is cancelled, main.py:696-698) while
\* its call waits for the lock or for the provider: CancelledError leaves the
\* async with block, or the wait for the lock.
SessionCancel(r) ==
    /\ sessions[r].st \in {"queued", "requesting"}
    /\ sessions' = [sessions EXCEPT ![r] = [@ EXCEPT !.st = "done", !.cause = "cancelled"]]
    /\ lock' = Release(r)
    /\ UNCHANGED <<offSessions, credentials, parallel_disabled>>

\* ------------------------------------------------------------------ the conversation stores
\* Owner identifiers (user_id, session_id), as sequences of characters.
Owners == {<<"u", "-", "1">>, <<"u", ".", "2">>, <<"u", "_", "2">>}

\* re.sub(r'[^a-zA-Z0-9_-]', '_', session_id)
sanitize_session_id(session_id) ==
    [i \in 1..Len(session_id) |->
        IF session_id[i] \in {"u", "1", "2", "-", "_"} THEN session_id[i] ELSE "_"]

ConvIds == 1..MaxConvs

\* No file at the path, no document with the _id.
Missing ==
    [key |-> <<>>, owner |-> <<>>, title |-> "New Conversation", messages |-> <<>>,
     deleted |-> FALSE, present |-> FALSE]

\* Where an owner's conversations are kept: the session directory of
\* get_conversation_path, or the session_id field of the document.
StoreKey(owner) == IF store_kind = "file" THEN sanitize_session_id(owner) ELSE owner

\* The update_one filter {"_id": conversation_id, "session_id": session_id},
\* and os.path.exists(path).
Matches(owner, id) == docs[id].present /\ docs[id].key = StoreKey(owner)

\* get_conversation(...) is not None: the file exists; the document matches
\* and has no deleted_at.
get_conversation(owner, id) == Matches(owner, id) /\ ~docs[id].deleted

\* os.remove(path) in storage; $set deleted_at in leads_storage.
Deleted(doc) == IF store_kind = "file" THEN Missing ELSE [doc EXCEPT !.deleted = TRUE]

\* storage.add_*_message: get_conversation, raise if None, append, save.
\* leads_storage.add_*_message: update_one with $push, raise if matched_count == 0.
Found(owner, id) ==
    IF store_kind = "file" THEN get_conversation(owner, id) ELSE Matches(owner, id)

\* add_user_message / add_assistant_message
AddMessage(owner, id, fn) ==
    /\ store_kind # "none" /\ Len(docs[id].messages) < MaxMessages
    /\ IF Found(owner, id)
       THEN /\ docs' = [docs EXCEPT ![id].messages = Append(@, fn)]
            /\ op' = [fn |-> fn, owner |-> owner, id |-> id, raised |-> FALSE]
       ELSE /\ docs' = docs
            /\ op' = [fn |-> fn, owner |-> owner, id |-> id, raised |-> TRUE]
    /\ UNCHANGED <<offStore, store_kind>>

\* create_conversation with a fresh uuid4 as conversation id.
create_conversation(owner, id) ==
    /\ store_kind # "none" /\ ~docs[id].present
    /\ docs' = [docs EXCEPT ![id] = [Missing EXCEPT !.present = TRUE, !.key = StoreKey(owner), !.owner = owner]]
    /\ op' = [fn |-> "create_conversation", owner |-> owner, id |-> id, raised |-> FALSE]
    /\ UNCHANGED <<offStore, store_kind>>

\* update_conversation_title: storage loads the conversation and raises if it
\* is None; leads_storage runs update_one with $set and raises if
\* matched_count == 0.
update_conversation_title(owner, id, new_title) ==
    /\ store_kind # "none"
    /\ IF Found(owner, id)
       THEN /\ docs' = [docs EXCEPT ![id].title = new_title]
            /\ op' = [fn |-> "update_conversation_title", owner |-> owner, id |-> id, raised |-> FALSE]
       ELSE /\ docs' = docs
            /\ op' = [fn |-> "update_conversation_title", owner |-> owner, id |-> id, raised |-> TRUE]
    /\ UNCHANGED <<offStore, store_kind>>

\* delete_conversation: True when a file was removed, or a document without
\* deleted_at was marked.
delete_conversation(owner, id) ==
    /\ store_kind # "none"
    /\ docs' = IF get_conversation(owner, id) THEN [docs EXCEPT ![id] = Deleted(@)] ELSE docs
    /\ op' = [fn |-> "delete_conversation", owner |-> owner, id |-> id, raised |-> FALSE,
              returned |-> get_conversation(owner, id)]
    /\ UNCHANGED <<offStore, store_kind>>

\* ------------------------------------------------------------------ stage 2: labels, verdicts and the aggregate ranking
\* The labels handed out to anonymized answers, in order.
LabelNames == <<"A", "B", "C", "D">>

Panel == 1..Len(stage1_answers)

\* The successful subset of stage 1, in the order of the results.
Successful(answers) == SelectSeq(answers, LAMBDA a : a.ok)

\* Each successful answer gets the next label.
AssignLabels(answers) ==
    LET good == Successful(answers)
    IN  [label \in {LabelNames[i] : i \in 1..Len(good)} |->
            good[CHOOSE i \in 1..Len(good) : LabelNames[i] = label].model]

\* A total order of the labels, best first.
Orderings(labels) ==
    {o \in [1..Cardinality(labels) -> labels] :
        \A i \in 1..Len(o) : \A j \in 1..Len(o) : o[i] = o[j] => i = j}

Verdict(st, ordering) == [st |-> st, ordering |-> ordering]

\* What a judge's call can resolve to: an ordering of the labels, or a failure.
JudgeReplies(labels) ==
    {Verdict("ok", o) : o \in Orderings(labels)} \cup {Verdict("failed", <<>>)}

\* The verdict set: one verdict per judge whose call succeeded, in panel order.
VerdictList(vs) ==
    LET all == [j \in 1..Len(vs) |-> [judge |-> j, ordering |-> vs[j].ordering, ok |-> vs[j].st = "ok"]]
        good == SelectSeq(all, LAMBDA v : v.ok)
    IN  [i \in 1..Len(good) |-> [judge |-> good[i].judge, ordering |-> good[i].ordering]]

\* Borda points of a label in one ordering: k-1 for the first place down to 0
\* for the last, 0 when the ordering does not mention it.
Points(ordering, label, k) ==
    IF \E p \in 1..Len(ordering) : ordering[p] = label
    THEN k - (CHOOSE p \in 1..Len(ordering) :
                 ordering[p] = label /\ \A q \in 1..(p - 1) : ordering[q] # label)
    ELSE 0

RECURSIVE Score(_, _, _)
Score(list, label, k) ==
    IF list = <<>> THEN 0
    ELSE Points(Head(list).ordering, label, k) + Score(Tail(list), label, k)

\* Descending by score, ties by model identifier.
Before(x, y) == x.score > y.score \/ (x.score = y.score /\ x.model < y.model)

RECURSIVE Insert(_, _)
Insert(sorted, x) ==
    IF sorted = <<>> THEN <<x>>
    ELSE IF Before(x, Head(sorted)) THEN <<x>> \o sorted
    ELSE <<Head(sorted)>> \o Insert(Tail(sorted), x)

RECURSIVE SortRanking(_)
SortRanking(list) == IF list = <<>> THEN <<>> ELSE Insert(SortRanking(Tail(list)), Head(list))

\* calculate_aggregate_rankings(stage2_results, label_to_model): the points of
\* every labelled model summed over the verdicts, sorted.
calculate_aggregate_rankings(list, labels) ==
    LET k == Cardinality(DOMAIN labels)
        names == [i \in 1..k |-> LabelNames[i]]
    IN  SortRanking([i \in 1..k |->
                        [model |-> labels[names[i]], score |-> Score(list, names[i], k)]])

\* stage2_collect_rankings starts: the labels are assigned and every panel
\* model is asked to judge; with no successful answer stage 2 is skipped.
RankCall ==
    /\ rank_pc = "idle"
    /\ label_to_model' = AssignLabels(stage1_answers)
    /\ IF Successful(stage1_answers) = <<>>
       THEN rank_pc' = "returned" /\ verdicts' = [j \in Panel |-> Verdict("failed", <<>>)]
       ELSE rank_pc' = "judging" /\ verdicts' = [j \in Panel |-> Verdict("pending", <<>>)]
    /\ UNCHANGED <<offRank, stage2_event>>

\* A judge's call resolves: with an ordering of the labels, or it fails.
JudgeReply(j, v) ==
    /\ rank_pc = "judging" /\ verdicts[j].st = "pending"
    /\ v \in JudgeReplies(DOMAIN label_to_model)
    /\ verdicts' = [verdicts EXCEPT ![j] = v]
    /\ UNCHANGED <<offRank, label_to_model, rank_pc, stage2_event>>

\* stage2_collect_rankings returns (verdicts, label_to_model).
RankReturn ==
    /\ rank_pc = "judging" /\ \A j \in Panel : verdicts[j].st # "pending"
    /\ rank_pc' = "returned"
    /\ UNCHANGED <<offRank, label_to_model, verdicts, stage2_event>>

\* Mutant: the label map is lost when the task's result is unpacked.
UnpackWithoutLabels(res) == [stage2_results |-> res[1], label_to_model |-> <<>>]

\* stage2_results, label_to_model = stage2_task.result()
Unpack(res) == [stage2_results |-> res[1], label_to_model |-> res[2]]

\* Mutant: only the first verdict is aggregated.
AggregateFirstVerdict(u) ==
    calculate_aggregate_rankings(SubSeq(u.stage2_results, 1, Min(1, Len(u.stage2_results))),
                                 u.label_to_model)

\* aggregate_rankings = calculate_aggregate_rankings(stage2_results, label_to_model)
AggregateRankings(u) == calculate_aggregate_rankings(u.stage2_results, u.label_to_model)

\* Mutant: the event's metadata carries no label map.
Stage2EventWithoutLabels(u) ==
    [type |-> "stage2_complete", data |-> u.stage2_results,
     metadata |-> [label_to_model |-> <<>>, aggregate_rankings |-> AggregateRankings(u)]]

\* {'type': 'stage2_complete', 'data': stage2_results,
\*  'metadata': {'label_to_model': ..., 'aggregate_rankings': ...}}
Stage2Event(u) ==
    [type |-> "stage2_complete", data |-> u.stage2_results,
     metadata |-> [label_to_model |-> u.label_to_model,
                   aggregate_rankings |-> AggregateRankings(u)]]

\* The generator takes the stage 2 task's result and yields stage2_complete.
Stage2Complete ==
    /\ rank_pc = "returned"
    /\ stage2_event' = Stage2Event(Unpack(<<VerdictList(verdicts), label_to_model>>))
    /\ rank_pc' = "reported"
    /\ UNCHANGED <<offRank, label_to_model, verdicts>>

\* ------------------------------------------------------------------ the inputs of the stages
\* A keyword argument the call does not pass: the callee's default applies.
Absent == "absent"

\* request.base_system_prompt or council_settings.get("base_system_prompt")
BaseSystemPrompt(i) == IF i.request_base # "none" THEN i.request_base ELSE i.saved_base

Invocation(stage, content, personal_prompt, base_system_prompt) ==
    [stage |-> stage, content |-> content, personal_prompt |-> personal_prompt,
     base_system_prompt |-> base_system_prompt]

Invoke(rec) ==
    /\ invocations' = Append(invocations, rec)
    /\ UNCHANGED <<offInputs, entry, inputs>>

\* send_message: run_full_council(enriched_content, ..., personal_prompt=personal_prompt,
\* base_system_prompt=base_system_prompt)
RunFullCouncil ==
    /\ entry = "message" /\ invocations = <<>>
    /\ Invoke(Invocation("council", inputs.content, inputs.personal_prompt, BaseSystemPrompt(inputs)))

\* run_full_council invokes stage 1 with the question, the personalization
\* prompt and the base identity prompt it was given.
CouncilStage1 ==
    /\ entry = "message" /\ Len(invocations) = 1
    /\ Invoke([invocations[1] EXCEPT !.stage = "stage1"])

\* event_generator: stage1_collect_responses(enriched_content, models=..., language=...,
\* base_system_prompt=base_system_prompt_to_use, on_model_complete=stage1_callback)
StreamStage1 ==
    /\ entry = "stream" /\ invocations = <<>>
    /\ Invoke(Invocation("stage1", inputs.content, Absent, BaseSystemPrompt(inputs)))

\* stage2_collect_rankings(enriched_content, stage1_results, models=..., language=...,
\* base_system_prompt=base_system_prompt_to_use, on_model_complete=stage2_callback)
StreamStage2 ==
    /\ entry = "stream" /\ Len(invocations) = 1
    /\ Invoke(Invocation("stage2", inputs.content, Absent, BaseSystemPrompt(inputs)))

\* stage3_synthesize_final(enriched_content, stage1_results, stage2_results, ...,
\* personal_prompt=personal_prompt, base_system_prompt=base_system_prompt_to_use)
StreamStage3 ==
    /\ entry = "stream" /\ Len(invocations) = 2
    /\ Invoke(Invocation("stage3", inputs.content, inputs.personal_prompt, BaseSystemPrompt(inputs)))

\* ------------------------------------------------------------------ time
\* A coroutine that can run does so before time passes.
Ready == (\E t \in Tasks : Awaited(t) /\ TaskDone(t))
         \/ (\E t \in Tasks : FanoutStage(t) /\ AllResolved)

\* Time passes while the generator sits in a wait_for; the wait_for's timeout
\* fires no later than HEARTBEAT_INTERVAL after the wait began.
CanWait == pc \in WaitPcs /\ ~Ready /\ timer < HEARTBEAT_INTERVAL

\* The coarse clock: time passes up to the timeout of the current wait_for;
\* the ages of the tasks are not kept.
Elapse == CanWait /\ Commit([Cur EXCEPT !.timer = HEARTBEAT_INTERVAL])

\* d time units pass, and every unresolved task is d older.
Advance(d) ==
    /\ CanWait
    /\ Commit([Cur EXCEPT !.timer = @ + d,
                          !.age = [t \in Tasks |-> IF task[t] = "running"
                                                   THEN Min(@[t] + d, HEARTBEAT_INTERVAL + 1)
                                                   ELSE @[t]]])

\* The fine clock: time passes by one quantum, or up to the timeout if that
\* comes first.
Tick == Advance(Min(TimeQuantum, HEARTBEAT_INTERVAL - timer))

\* ------------------------------------------------------------------ specifications
InitWith(endpoints) ==
    /\ endpoint \in endpoints
    /\ hasUrls \in BOOLEAN
    /\ request_models \in {"empty", "panel"}
    /\ messages \in {<<>>, EarlierExchange}
    /\ is_first_message = (Len(messages) = 0)
    /\ pc = "start" /\ outcome = "" /\ cancelled = FALSE
    /\ running_tasks = <<>> /\ enriched_content = "none"
    /\ task = [t \in Tasks |-> "none"]
    /\ result = NoResults
    /\ calls = [m \in Models |-> "idle"]
    /\ completed = <<>> /\ last_reported_count = 0
    /\ conv = "present" /\ title = "New Conversation"
    /\ dbop = "idle" /\ dbarg = NoMessage
    /\ events = <<>> /\ reported = <<>> /\ timer = 0
    /\ age = [t \in Tasks |-> 0]
    /\ hbSince = [t \in Tasks |-> FALSE]
    /\ starts = [t \in Tasks |-> 0]
    /\ cancelAt = NotCancelled

\* No fan-out is under observation.
FanoutIdle ==
    /\ impl = "none" /\ models = <<>> /\ on_model_complete = FALSE
    /\ credentials = TRUE /\ parallel_disabled = TRUE
    /\ call = <<>> /\ lock = 0 /\ fan_pc = "idle" /\ returned = <<>> /\ overtaken = FALSE

\* process_message_links is not under observation.
LinksIdle ==
    /\ text = <<>> /\ firecrawl_key = TRUE /\ scrape = <<>>
    /\ links_pc = "idle" /\ links_result = <<>>

\* No concurrent requests are under observation.
SessionsIdle == sessions = <<>>

\* No storage module is under observation.
StoreIdle == store_kind = "none" /\ docs = <<>> /\ op = <<>>

\* No ranking is under observation.
RankIdle ==
    /\ site = "none" /\ stage1_answers = <<>> /\ label_to_model = <<>>
    /\ verdicts = <<>> /\ rank_pc = "idle" /\ stage2_event = <<>>

\* No stage invocation is under observation.
InputsIdle == entry = "none" /\ inputs = <<>> /\ invocations = <<>>

\* No authorization header, no dependency called.
NoCredentials == [kind |-> "none"]

Unauthenticated ==
    [dep |-> "none", st |-> "", bypassed |-> FALSE, identity |-> "", token |-> NoCredentials]

AuthIdle ==
    /\ LEADS_MODE = FALSE /\ ip_allowed = FALSE
    /\ bearer = NoCredentials /\ auth_result = Unauthenticated

\* No conversation under observation.
TurnsIdle == thread = <<>> /\ turns = <<>>

ExtraIdle == InputsIdle /\ AuthIdle /\ TurnsIdle

AuxIdle == LinksIdle /\ SessionsIdle /\ StoreIdle /\ RankIdle /\ ExtraIdle

Init == InitWith({"stream", "leads", "message"}) /\ FanoutIdle /\ AuxIdle

GeneratorStep ==
    \/ GenStart
    \/ ScrapingTimeout \/ Stage1Timeout \/ Stage2Timeout \/ Stage3Timeout \/ TitleTimeout
    \/ ScrapingReturn \/ Stage1Return \/ Stage2Return \/ Stage3Return \/ TitleReturn
    \/ Stage2Begin \/ Stage3Begin \/ AfterStage3

LeadsStep ==
    \/ DbApply \/ LeadsUserMessageReturn \/ LeadsTitleReturn \/ LeadsAssistantReturn
    \/ LeadsPartialReturn

CancelStep == Cancel \/ HandlerDone \/ (\E t \in Tasks : TaskCancelled(t))

TaskStep ==
    \/ \E m \in Models, ok \in BOOLEAN : CallResolve(m, ok)
    \/ Stage1Finish \/ Stage2Finish \/ Stage3Finish
    \/ \E t \in Tasks : SideTaskFinish(t)
    \/ \E t \in Tasks : TaskRaise(t)

NonStreamingStep ==
    \/ NsStart \/ NsLinksReturn \/ NsTitleReturn \/ NsStage1Return \/ NsStage2Return
    \/ NsCouncilReturn

Next ==
    \/ GeneratorStep \/ LeadsStep \/ CancelStep \/ TaskStep \/ NonStreamingStep
    \/ DeleteConversation \/ Elapse

Spec == Init /\ [][Next]_vars

\* The file-storage streaming session alone, uninterrupted, on a clock that
\* advances by TimeQuantum (the wait loops of the leads session are the same
\* code, and Spec runs them on the coarse clock).
InitTimed == InitWith({"stream"}) /\ FanoutIdle /\ AuxIdle

NextTimed == GeneratorStep \/ TaskStep \/ Tick

SpecTimed == InitTimed /\ [][NextTimed]_vars

\* One call of a parallel fan-out, of either implementation, on a list of at
\* most MaxPanel identifiers, each routed to a different adapter by llm.
PanelIds == {<<"gigachat", "/", "m">>, <<"yandex", "/", "m">>, <<"m", "/", "m">>}

\* No council request is under observation.
CouncilIdle ==
    InitWith({"none"}) /\ ~hasUrls /\ messages = <<>> /\ request_models = "panel"

InitFanout ==
    /\ CouncilIdle /\ AuxIdle
    /\ impl \in {"llm", "openrouter"}
    /\ models \in SeqsUpTo(PanelIds, MaxPanel) \ {<<>>}
    /\ on_model_complete \in BOOLEAN
    /\ credentials \in BOOLEAN /\ parallel_disabled \in BOOLEAN
    /\ call = [i \in 1..Len(models) |-> NewCall]
    /\ lock = 0 /\ fan_pc = "idle" /\ returned = <<>> /\ overtaken = FALSE

NextFanout ==
    \/ FanCall
    \/ \E i \in Calls : Enter(i)
    \/ \E i \in Calls : LockAcquire(i)
    \/ \E i \in Calls, kind \in ReplyKinds : ProviderReply(i, kind)
    \/ \E i \in Calls : AdapterTimeout(i)
    \/ \E i \in Calls : WaitForTimeout(i)
    \/ \E i \in Calls : LateReply(i)
    \/ FanTick
    \/ Gather

SpecFanout == InitFanout /\ [][NextFanout]_vars

\* llm.query_model on one model identifier of any shape.
InitRoute ==
    /\ CouncilIdle /\ AuxIdle
    /\ impl = "llm"
    /\ models \in {<<id>> : id \in ModelIds}
    /\ on_model_complete = FALSE
    /\ credentials \in BOOLEAN /\ parallel_disabled = TRUE
    /\ call = <<NewCall>>
    /\ lock = 0 /\ fan_pc = "idle" /\ returned = <<>> /\ overtaken = FALSE

NextRoute ==
    \/ FanCall
    \/ \E i \in Calls : Enter(i)
    \/ \E i \in Calls, kind \in ReplyKinds : ProviderReply(i, kind)
    \/ \E i \in Calls : AdapterTimeout(i)
    \/ FanTick
    \/ Gather

SpecRoute == InitRoute /\ [][NextRoute]_vars


\* One call of process_message_links on a text with up to MaxMentions URL mentions.
InitLinks ==
    /\ CouncilIdle /\ FanoutIdle /\ SessionsIdle /\ StoreIdle /\ RankIdle /\ ExtraIdle
    /\ text \in SeqsUpTo(Mentions, MaxMentions)
    /\ firecrawl_key \in BOOLEAN
    /\ scrape = <<>> /\ links_pc = "idle" /\ links_result = <<>>

NextLinks ==
    \/ LinksCall
    \/ \E u \in Urls, kind \in {"success", "success_false", "error", "timeout"},
          markdown \in Markdowns : FirecrawlReply(u, kind, markdown)
    \/ \E u \in Urls, kind \in {"success", "error", "timeout"},
          markdown \in Markdowns : DirectReply(u, kind, markdown)
    \/ LinksReturn

SpecLinks == InitLinks /\ [][NextLinks]_vars


\* NumRequests requests at once, each with a call to one model.
InitSessions ==
    /\ CouncilIdle /\ LinksIdle /\ StoreIdle /\ RankIdle /\ ExtraIdle
    /\ impl = "none" /\ models = <<>> /\ on_model_complete = FALSE
    /\ call = <<>> /\ fan_pc = "idle" /\ returned = <<>> /\ overtaken = FALSE
    /\ credentials \in BOOLEAN /\ parallel_disabled \in BOOLEAN /\ lock = 0
    /\ \E ids \in [1..NumRequests -> PanelIds] :
           sessions = [r \in 1..NumRequests |->
                          [model |-> ids[r]] @@ NewCall]

NextSessions ==
    \/ \E r \in Sessions : SessionEnter(r)
    \/ \E r \in Sessions : SessionLockAcquire(r)
    \/ \E r \in Sessions, kind \in ReplyKinds \cup {"timeout"} : SessionReply(r, kind)
    \/ \E r \in Sessions : SessionCancel(r)

SpecSessions == InitSessions /\ [][NextSessions]_vars

\* The same under the scheduling of the event loop: a call that can take the
\* free lock is resumed, and every request sent is answered or times out.
SpecSessionsFair ==
    /\ SpecSessions
    /\ WF_vars(\E r \in Sessions : SessionLockAcquire(r))
    /\ WF_vars(\E r \in Sessions, kind \in ReplyKinds \cup {"timeout"} : SessionReply(r, kind))


\* The calls of one storage module, on conversations of two owners.
InitStore ==
    /\ CouncilIdle /\ FanoutIdle /\ LinksIdle /\ SessionsIdle /\ RankIdle /\ ExtraIdle
    /\ store_kind \in {"file", "leads"}
    /\ docs = [id \in ConvIds |-> Missing]
    /\ op = [fn |-> "none", owner |-> <<>>, id |-> 0, raised |-> FALSE]

AddFns == {"add_user_message", "add_assistant_message"}

NextStore ==
    \/ \E owner \in Owners, id \in ConvIds, fn \in AddFns : AddMessage(owner, id, fn)
    \/ \E owner \in Owners, id \in ConvIds : create_conversation(owner, id)
    \/ \E owner \in Owners, id \in ConvIds : delete_conversation(owner, id)
    \/ \E owner \in Owners, id \in ConvIds : update_conversation_title(owner, id, "Generated title")

SpecStore == InitStore /\ [][NextStore]_vars


\* Stage 2 of one request of either streaming generator, on the stage 1
\* results of a panel of up to NumModels models.
InitRank ==
    /\ CouncilIdle /\ FanoutIdle /\ LinksIdle /\ SessionsIdle /\ StoreIdle /\ ExtraIdle
    /\ site \in {"stream", "leads"}
    /\ \E n \in 1..NumModels : \E oks \in [1..n -> BOOLEAN] :
           stage1_answers = [i \in 1..n |-> [model |-> i, ok |-> oks[i]]]
    /\ label_to_model = <<>> /\ verdicts = <<>> /\ rank_pc = "idle" /\ stage2_event = <<>>

NextRank ==
    \/ RankCall
    \/ \E j \in Panel : \E v \in JudgeReplies(DOMAIN label_to_model) : JudgeReply(j, v)
    \/ RankReturn
    \/ Stage2Complete

SpecRank == InitRank /\ [][NextRank]_vars


\* One message request of the non-streaming or of the streaming entry point,
\* for every combination of a question with or without link content, a
\* personalization prompt, a saved base prompt and a base prompt in the request.
InitInputs ==
    /\ CouncilIdle /\ FanoutIdle /\ LinksIdle /\ SessionsIdle /\ StoreIdle /\ RankIdle /\ AuthIdle /\ TurnsIdle
    /\ entry \in {"message", "stream"}
    /\ inputs \in [content : {"raw", "enriched"}, personal_prompt : {"", "personal"},
                   request_base : {"none", "requested"}, saved_base : {"none", "saved"}]
    /\ invocations = <<>>

NextInputs == RunFullCouncil \/ CouncilStage1 \/ StreamStage1 \/ StreamStage2 \/ StreamStage3

SpecInputs == InitInputs /\ [][NextInputs]_vars


\* ------------------------------------------------------------------ bearer tokens
\* JSON null / Python None as a claim's value.
Null == "None"

PayloadKeys == {"user_id", "username", "email", "roles", "session_id", "telegram", "token_type"}

\* A JWT payload holding the given claims; every other key is absent.
Payload(claims) == [k \in PayloadKeys |-> IF k \in DOMAIN claims THEN claims[k] ELSE Absent]

\* payload.get(key, default)
Get(payload, key, default) == IF payload[key] = Absent THEN default ELSE payload[key]

\* create_access_token(data): the data signed with JWT_SECRET, with an expiry.
create_access_token(data) == [kind |-> "bearer", payload |-> Payload(data), expired |-> FALSE]

\* create_leads_token(session_id, email, telegram)
create_leads_token(session_id, email, telegram) ==
    create_access_token([session_id |-> session_id, email |-> email,
                         telegram |-> telegram, token_type |-> "lead"])

\* The documents authenticate_user can return: one with a user_id, one
\* identified by its _id only.
Operators ==
    {[user_id |-> "op-1", id |-> "65f0", username |-> "op", email |-> "op@example.org", roles |-> "[admin]"],
     [user_id |-> "", id |-> "65f1", username |-> "guest", email |-> "guest@example.org", roles |-> "[]"]}

\* login: user_id = user.get("user_id"), or str(user.get("_id", "")) if that
\* is empty; the token carries user_id, username, email and roles.
LoginToken(user) ==
    create_access_token([user_id |-> IF user.user_id = "" THEN user.id ELSE user.user_id,
                         username |-> user.username, email |-> user.email, roles |-> user.roles])

\* jwt.decode raises JWTError (ExpiredSignatureError) on an expired token.
\* decode_access_token: TokenData from the payload's user_id, username, email
\* and roles with defaults for absent keys, None on JWTError.  TokenData's
\* fields are str / list[str]: a null value fails validation.
decode_access_token(token) ==
    IF token.expired THEN [st |-> "None"]
    ELSE LET user_id == Get(token.payload, "user_id", "")
             username == Get(token.payload, "username", "")
             email == Get(token.payload, "email", "")
             roles == Get(token.payload, "roles", "[]")
         IN  IF Null \in {user_id, username, email, roles}
             THEN [st |-> "ValidationError"]
             ELSE [st |-> "ok", user_id |-> user_id, username |-> username,
                   email |-> email, roles |-> roles]

\* decode_leads_token: None on JWTError and when token_type is not "lead".
decode_leads_token(token) ==
    IF token.expired THEN [st |-> "None"]
    ELSE IF Get(token.payload, "token_type", Null) # "lead" THEN [st |-> "None"]
    ELSE [st |-> "ok", session_id |-> Get(token.payload, "session_id", ""),
          email |-> Get(token.payload, "email", Null),
          telegram |-> Get(token.payload, "telegram", Null)]

AuthResult(dep, st, bypassed, identity) ==
    [dep |-> dep, st |-> st, bypassed |-> bypassed, identity |-> identity, token |-> bearer]

\* POST /api/auth/login with the password of an operator.
login(user) ==
    /\ bearer' = LoginToken(user)
    /\ UNCHANGED <<offAuth, LEADS_MODE, ip_allowed, auth_result>>

\* POST /api/leads/register: needs leads mode and an email or a telegram.
register_lead(email, telegram) ==
    /\ LEADS_MODE
    /\ ~(email = Null /\ telegram = Null)
    /\ bearer' = create_leads_token("lead-session", email, telegram)
    /\ UNCHANGED <<offAuth, LEADS_MODE, ip_allowed, auth_result>>

\* The token's exp passes.
TokenExpires ==
    /\ bearer.kind = "bearer" /\ ~bearer.expired
    /\ bearer' = [bearer EXCEPT !.expired = TRUE]
    /\ UNCHANGED <<offAuth, LEADS_MODE, ip_allowed, auth_result>>

\* get_current_user: the bypass user for an allowed IP, 401 without
\* credentials or when decode_access_token gives None, else the User of the
\* token data.
get_current_user ==
    /\ auth_result' =
          IF ip_allowed THEN AuthResult("get_current_user", "accepted", TRUE, "bypassed")
          ELSE IF bearer = NoCredentials THEN AuthResult("get_current_user", "401", FALSE, "")
          ELSE LET token_data == decode_access_token(bearer)
               IN  IF token_data.st = "None" THEN AuthResult("get_current_user", "401", FALSE, "")
                   ELSE IF token_data.st = "ValidationError"
                        THEN AuthResult("get_current_user", "ValidationError", FALSE, "")
                   ELSE AuthResult("get_current_user", "accepted", FALSE, token_data.user_id)
    /\ UNCHANGED <<offAuth, LEADS_MODE, ip_allowed, bearer>>

\* get_current_lead: 400 outside leads mode, 401 without credentials or when
\* decode_leads_token gives None, else the LeadUser of the token data.
get_current_lead ==
    /\ auth_result' =
          IF ~LEADS_MODE THEN AuthResult("get_current_lead", "400", FALSE, "")
          ELSE IF bearer = NoCredentials THEN AuthResult("get_current_lead", "401", FALSE, "")
          ELSE LET token_data == decode_leads_token(bearer)
               IN  IF token_data.st = "None" THEN AuthResult("get_current_lead", "401", FALSE, "")
                   ELSE AuthResult("get_current_lead", "accepted", FALSE, token_data.session_id)
    /\ UNCHANGED <<offAuth, LEADS_MODE, ip_allowed, bearer>>

\* A client of one deployment: it logs in or registers as a lead, and calls
\* endpoints behind either dependency with the token it holds.
InitAuth ==
    /\ CouncilIdle /\ FanoutIdle /\ LinksIdle /\ SessionsIdle /\ StoreIdle /\ RankIdle /\ InputsIdle /\ TurnsIdle
    /\ LEADS_MODE \in BOOLEAN /\ ip_allowed \in BOOLEAN
    /\ bearer = NoCredentials /\ auth_result = Unauthenticated

NextAuth ==
    \/ \E user \in Operators : login(user)
    \/ \E email \in {Null, "lead@example.org"}, telegram \in {Null, "@lead"} : register_lead(email, telegram)
    \/ TokenExpires
    \/ get_current_user
    \/ get_current_lead

SpecAuth == InitAuth /\ [][NextAuth]_vars


\* ------------------------------------------------------------------ the requests on one conversation
\* A request moves on, or ends with a cause.
Turn(at, cause) == [pc |-> at, cause |-> cause]

\* storage.add_user_message(user_id, conversation_id, request.content), the
\* first statement of the generator (and of send_message).
TurnAddUser(r) ==
    /\ turns[r].pc = "idle"
    /\ thread' = Append(thread, "user")
    /\ turns' = [turns EXCEPT ![r] = Turn("stage1", "")]
    /\ UNCHANGED offTurns

\* The stage 1 task of the request resolves with its results.
TurnStage1Done(r) ==
    /\ turns[r].pc = "stage1"
    /\ turns' = [turns EXCEPT ![r] = Turn("stage1_done", "")]
    /\ UNCHANGED <<offTurns, thread>>

\* The three stages returned: storage.add_assistant_message, then complete.
TurnComplete(r) ==
    /\ turns[r].pc = "stage1_done"
    /\ thread' = Append(thread, "assistant")
    /\ turns' = [turns EXCEPT ![r] = Turn("done", "complete")]
    /\ UNCHANGED offTurns

\* except Exception: the error event is yielded, nothing is stored.
TurnError(r) ==
    /\ turns[r].pc \in {"stage1", "stage1_done"}
    /\ turns' = [turns EXCEPT ![r] = Turn("done", "error")]
    /\ UNCHANGED <<offTurns, thread>>

\* except asyncio.CancelledError: the partial assistant message is stored if
\* the stage 1 task has a result (if partial_stage1 or partial_stage3).
TurnCancel(r) ==
    /\ turns[r].pc \in {"stage1", "stage1_done"}
    /\ thread' = IF turns[r].pc = "stage1_done" THEN Append(thread, "assistant") ELSE thread
    /\ turns' = [turns EXCEPT ![r] = Turn("done", "cancelled")]
    /\ UNCHANGED offTurns

\* NumRequests requests on one conversation of file storage, new or holding
\* one finished exchange; nothing orders the requests.
InitTurns ==
    /\ CouncilIdle /\ FanoutIdle /\ LinksIdle /\ SessionsIdle /\ StoreIdle /\ RankIdle
    /\ InputsIdle /\ AuthIdle
    /\ thread \in {<<>>, <<"user", "assistant">>}
    /\ turns = [r \in 1..NumRequests |-> Turn("idle", "")]

NextTurns ==
    \/ \E r \in 1..NumRequests : TurnAddUser(r)
    \/ \E r \in 1..NumRequests : TurnStage1Done(r)
    \/ \E r \in 1..NumRequests : TurnComplete(r)
    \/ \E r \in 1..NumRequests : TurnError(r)
    \/ \E r \in 1..NumRequests : TurnCancel(r)

SpecTurns == InitTurns /\ [][NextTurns]_vars


\* ------------------------------------------------------------------ properties
\* The messages this request added to the conversation.
NewMessages == SubSeq(messages, (IF is_first_message THEN 0 ELSE Len(EarlierExchange)) + 1, Len(messages))

NewAssistant == SelectSeq(NewMessages, LAMBDA m : m.role = "assistant")

EventOrder == <<"stage1_start", "stage1_model_complete", "stage1_complete",
                "stage2_start", "stage2_model_complete", "stage2_complete",
                "stage3_start", "stage3_complete", "title_complete", "complete">>

Pos(e) == CHOOSE i \in 1..Len(EventOrder) : EventOrder[i] = e

Repeatable == {"stage1_model_complete", "stage2_model_complete"}

Optional == Repeatable \cup {"title_complete"}

StageEvents == SelectSeq(events, LAMBDA e : e \in Range(EventOrder))

\* Each event is followed by itself (a model completion only) or by a later
\* event of EventOrder, and only optional events are skipped.
WellOrdered(evs) ==
    /\ Len(evs) > 0 => evs[1] = "stage1_start"
    /\ \A i \in 1..(Len(evs) - 1) :
          /\ Pos(evs[i]) <= Pos(evs[i + 1])
          /\ Pos(evs[i]) = Pos(evs[i + 1]) => evs[i] \in Repeatable
          /\ \A j \in (Pos(evs[i]) + 1)..(Pos(evs[i + 1]) - 1) : EventOrder[j] \in Optional

\* C1: in a streaming session that is neither cancelled nor fails, the
\* non-heartbeat stage events come in the order stage1_start,
\* stage1_model_complete*, stage1_complete, stage2_start, stage2_model_complete*,
\* stage2_complete, stage3_start, stage3_complete, optional title_complete,
\* complete; a session that returned ended with complete.
C1_EventOrder ==
    (Streaming /\ ~cancelled /\ "error" \notin Range(events)) =>
        /\ WellOrdered(StageEvents)
        /\ outcome = "returned" => events[Len(events)] = "complete"

C1_Witness ==
    /\ Streaming /\ ~cancelled /\ outcome = "returned"
    /\ {"stage1_model_complete", "stage2_model_complete", "title_complete", "complete"}
          \subseteq Range(events)

\* C2: in a streaming request the stage 2 task exists only once the stage 1
\* task has returned, the stage 3 task only once the stage 2 task has returned,
\* and no stage task is created twice.
C2_StagesDoNotOverlap ==
    Streaming =>
        /\ task["stage2"] # "none" => task["stage1"] = "done"
        /\ task["stage3"] # "none" => task["stage2"] = "done"
        /\ \A t \in Stages : starts[t] <= 1

C2_Witness == Streaming /\ task["stage3"] = "running" /\ starts["stage3"] = 1

\* The cancellation came while the generator waited on a running stage 2 task.
CancelledInStage2 ==
    cancelled /\ cancelAt.pc = "w_stage2" /\ cancelAt.task["stage2"] = "running"

\* The cancellation handler is past the point where it saves partial results.
PartialSaved == pc = "h_gather" \/ (pc = "end" /\ outcome = "cancelled")

\* C3: a session cancelled while stage 2 runs stores stage 1's results, an empty
\* stage 2 list and the sentinel as stage 3 (one message, when stage 1 returned
\* a non-empty list); after any cancellation the stored stage 2 list is empty or
\* the whole result of the finished stage 2 task.
C3_CancelMidStage2 ==
    /\ CancelledInStage2 =>
          /\ \A i \in 1..Len(NewAssistant) :
                NewAssistant[i] = AssistantMessage(result.stage1, <<>>, Sentinel)
          /\ (PartialSaved /\ Truthy(result.stage1)) => Len(NewAssistant) = 1
    /\ cancelled =>
          \A i \in 1..Len(NewAssistant) :
             \/ NewAssistant[i].stage2 = <<>>
             \/ task["stage2"] = "done" /\ NewAssistant[i].stage2 = result.stage2

\* Cancelled in stage 2 after a judge had answered, and the message is stored.
C3_Witness ==
    /\ CancelledInStage2 /\ PartialSaved /\ Len(NewAssistant) = 1
    /\ task["stage2"] = "cancel_requested" /\ \E m \in Models : calls[m] = "ok"

\* C4: the stage 3 field a cancelled session stores is the sentinel exactly when
\* the stage 3 task had not returned when the cancellation came; otherwise it is
\* the task's result.
C4_SentinelIffStage3Unfinished ==
    cancelled =>
        \A i \in 1..Len(NewAssistant) :
           /\ NewAssistant[i].stage3 = Sentinel <=> cancelAt.task["stage3"] # "done"
           /\ NewAssistant[i].stage3 # Sentinel => NewAssistant[i].stage3 = result.stage3

\* Cancelled while waiting for the title, after stage 3 returned.
C4_Witness ==
    /\ cancelled /\ cancelAt.pc = "w_title" /\ Len(NewAssistant) = 1
    /\ NewAssistant[1].stage3 = Stage3Result


\* C5: after a cancellation the handler is left by re-raising CancelledError,
\* with no task of running_tasks still running and no stage started since the
\* cancellation.  (Fails: storage.add_assistant_message raising in the handler
\* skips the clean-up and replaces the CancelledError.)
C5_CancelCleansUp ==
    /\ cancelled => \A t \in Stages : starts[t] = cancelAt.starts[t]
    /\ (cancelled /\ pc = "end") =>
          /\ outcome = "cancelled"
          /\ \A t \in Range(running_tasks) : task[t] # "running"

\* C6: a request stores at most one assistant message.  (Fails in leads mode:
\* a cancellation at the await of the final add_assistant_message, after its
\* update took effect, makes the handler store the message again.)
C6_PersistedAtMostOnce == Len(NewAssistant) <= 1

\* C7: the handler never waits for the title call before stage 1 is started.
\* (Fails in the non-streaming send_message, which awaits the title first.)
C7_TitleNeverBlocksStage1 == task["title"] = "running" => task["stage1"] # "none"

\* C8: a streaming session that is not cancelled, whose conversation exists and
\* whose three stage tasks all returned, ends with the assistant message stored
\* and the complete event yielded, whatever the title task did.  (Fails: an
\* exception of the title task is re-raised by title_task.result().)
C8_TitleOffCriticalPath ==
    (Streaming /\ ~cancelled /\ pc = "end" /\ conv = "present"
        /\ \A t \in Stages : task[t] = "done") =>
        /\ Len(NewAssistant) = 1
        /\ "complete" \in Range(events)

\* The events this step yields.
Yielded == SubSeq(events', Len(events) + 1, Len(events'))

CompletionYielded(t) == Len(events') > Len(events) /\ CompleteEvent(t) \in Range(Yielded)

Late(t) == age[t] > HEARTBEAT_INTERVAL

\* C9 as claimed: whenever the completion event of a task (title included) is
\* yielded and the task was unresolved for more than HEARTBEAT_INTERVAL, a
\* heartbeat was yielded since the task was created.
C9_HeartbeatBeforeCompletionAnyTask ==
    [][\A t \in Tasks : (CompletionYielded(t) /\ Late(t)) => hbSince[t]]_vars

\* C9, amended: the same for the scraping task and the three stage tasks, which
\* the generator waits on from their creation.
C9_HeartbeatBeforeCompletion ==
    [][\A t \in Tasks \ {"title"} : (CompletionYielded(t) /\ Late(t)) => hbSince[t]]_vars

\* The stage 1 task resolved after more than HEARTBEAT_INTERVAL and a heartbeat
\* was yielded meanwhile; stage1_complete is about to be yielded.
C9_Witness ==
    /\ pc = "w_stage1" /\ task["stage1"] = "done" /\ Late("stage1") /\ hbSince["stage1"]

StageWait == pc \in {"w_stage1", "w_stage2"}

\* C10 as claimed: a completion is reported as soon as the call resolves, so no
\* time passes in a stage's wait while a completion is unreported.
C10_ReportedAtOnce ==
    [][(StageWait /\ timer' > timer) => last_reported_count = Len(completed)]_vars

\* C10, amended: every completion the callback recorded has been reported, in
\* callback order, when a wait of the stage times out and when the stage's
\* complete event is yielded; nothing is reported that the callback did not record.
C10_ReportedAtHeartbeatOrStageEnd ==
    [][/\ (StageWait /\ pc' = pc /\ timer = HEARTBEAT_INTERVAL /\ timer' = 0)
             => reported' = completed'
       /\ (CompletionYielded("stage1") \/ CompletionYielded("stage2"))
             => reported' = completed'
       /\ StageWait' => reported' = SubSeq(completed', 1, Len(reported'))]_vars

\* A completion has been reported while another call of stage 1 is outstanding.
C10_Witness ==
    /\ pc = "w_stage1" /\ task["stage1"] = "running" /\ Len(reported) >= 1
    /\ \E m \in Models : calls[m] = "pending"

\* C19: a request whose model list is present but empty changes nothing: no
\* message is stored, no title is set, no task starts, no provider call is
\* issued, no event is yielded, and the endpoint is left by HTTP 400.
C19_EmptyModelListRejected ==
    EmptyModelList =>
        /\ NewMessages = <<>> /\ title = "New Conversation" /\ dbop = "idle"
        /\ \A t \in Tasks : task[t] = "none"
        /\ \A m \in Models : calls[m] = "idle"
        /\ events = <<>>
        /\ pc = "end" => outcome = "rejected"

\* A leads request with an empty model list has been rejected.
C19_Witness == EmptyModelList /\ endpoint = "leads" /\ pc = "end" /\ outcome = "rejected"

C11_OneEntryPerRequestedModel ==
    fan_pc = "returned" =>
        /\ Cardinality(DOMAIN returned) = Len(models)
        /\ \A id \in DOMAIN returned : returned[id] = NoResponse \/ returned[id].ok

\* The fan-out has handed control back to its caller.
FanoutOver == fan_pc \in {"returned", "raised"}

\* C12: the fan-out returns only after every model's call has resolved
\* (success, failure or timeout); the failure of one call never makes it
\* return, or raise, while other calls are still outstanding.
C12_ReturnsAfterEveryCall ==
    /\ FanoutOver => \A i \in Calls : call[i].st = "done"
    /\ fan_pc # "raised"

\* Two GigaChat calls share the lock: the first one failed while the second
\* was still waiting for it, and the second one's result is in the map.
C12_Witness ==
    /\ fan_pc = "returned" /\ Len(models) = 2 /\ parallel_disabled
    /\ call[1].adapter = "gigachat" /\ call[2].adapter = "gigachat"
    /\ call[1].cause = "http_error" /\ call[1].response = NoResponse
    /\ call[2].response = Response(2, "text")

\* C13: a supplied completion callback is invoked exactly once for every
\* model's call, on success, on failure and on timeout, once that call has
\* resolved and before the fan-out returns.
C13_CallbackOncePerCall ==
    on_model_complete =>
        /\ \A i \in Calls : call[i].callbacks = IF call[i].st = "done" THEN 1 ELSE 0
        /\ FanoutOver => \A i \in Calls : call[i].callbacks = 1

\* A fan-out with a callback returned with one call timed out and one answered.
C13_Witness ==
    /\ fan_pc = "returned" /\ on_model_complete
    /\ \E i \in Calls : call[i].cause \in {"timeout", "abandoned"} /\ call[i].callbacks = 1
    /\ \E i \in Calls : call[i].response.ok /\ call[i].callbacks = 1

\* C14: in both fan-out implementations a call that has not resolved within
\* the per-call timeout, measured from its dispatch, is abandoned and recorded
\* as None, calls queued behind the GigaChat lock included, and a result that
\* arrives later is discarded.
C14_AbandonedAtTimeout ==
    /\ \A i \in Calls : call[i].st \in {"queued", "requesting"} => call[i].waited <= CallTimeout
    /\ \A i \in Calls : call[i].abandoned => call[i].st = "done" /\ call[i].response = NoResponse
    /\ fan_pc = "returned" =>
          \A i \in Calls : call[i].abandoned /\ LastOf(models[i]) = i
                              => returned[models[i]] = NoResponse

\* C15: a failure or a timeout of one call is isolated: it leaves every sibling
\* call as it was, and every sibling that succeeds appears with its result in
\* the returned map.
C15_FailureIsolated ==
    [][/\ \A i \in Calls :
             (call[i].st # "done" /\ call'[i].st = "done" /\ ~call'[i].response.ok)
                 => \A j \in Calls \ {i} : call'[j] = call[j]
       /\ fan_pc' = "returned" =>
             \A i \in Calls : ~call'[i].response.ok =>
                 \A j \in Calls \ {i} : call'[j].response.ok
                                            => returned'[models'[j]] = call'[j].response]_vars

\* The failures an adapter has to report as None.
FailureCauses ==
    {"no_credentials", "http_error", "not_json", "no_choices", "no_message",
     "timeout", "network_error"}

\* C16: every adapter returns None, and raises nothing, on missing
\* credentials, a non-2xx response, a malformed or empty body, a timeout and
\* a network error.
C16_FailureIsNone ==
    \A i \in Calls :
        call[i].cause \in FailureCauses =>
            call[i].st = "done" /\ call[i].response = NoResponse

RECURSIVE Requests(_)
Requests(n) == IF n = 0 THEN 0 ELSE call[n].requests + Requests(n - 1)

\* C17: one adapter call sends at most one provider request and never
\* retries; a fan-out over k models sends at most k requests.
C17_AtMostOneRequest ==
    /\ \A i \in Calls : call[i].requests <= 1
    /\ \A i \in Calls : call[i].st = "done" /\ ~call[i].response.ok /\ ~ChecksCredentials(call[i].adapter)
                           => call[i].requests = 1
    /\ Requests(Len(models)) <= Len(models)

\* Every call of a full panel sent its request, and one of them was refused.
C17_Witness ==
    /\ fan_pc = "returned" /\ Len(models) = MaxPanel
    /\ Requests(Len(models)) = MaxPanel
    /\ \E i \in Calls : call[i].cause = "http_error" /\ call[i].requests = 1

\* The text before the first "/" of a model identifier; none without a "/".
RECURSIVE Prefix(_)
Prefix(id) ==
    IF id = <<>> THEN <<>>
    ELSE IF Head(id) = "/" THEN <<>>
    ELSE <<Head(id)>> \o Prefix(Tail(id))

HasSlash(id) == "/" \in Range(id)

RouteByPrefix(id) ==
    IF HasSlash(id) /\ Prefix(id) = <<"gigachat">> THEN "gigachat"
    ELSE IF HasSlash(id) /\ Prefix(id) = <<"yandex">> THEN "yandex"
    ELSE "openrouter"

\* C18: the adapter a call goes to is a function of the text before the first
\* "/" of its model identifier: "gigachat" goes to GigaChat, "yandex" to
\* Yandex, anything else, an identifier without "/" included, to OpenRouter;
\* a call that has been dispatched has exactly one adapter.
C18_RoutedByPrefix ==
    \A i \in Calls :
        IF call[i].st = "new" THEN call[i].adapter = "none"
        ELSE /\ call[i].adapter = RouteByPrefix(models[i])
             /\ call[i].requests > 0 => call[i].adapter \in {"gigachat", "yandex", "openrouter"}

\* An identifier that begins with a provider name not followed by "/" was
\* answered by OpenRouter.
C18_Witness ==
    /\ fan_pc = "returned" /\ impl = "llm"
    /\ models[1] = <<"gigachat", "m", "/">>
    /\ call[1].adapter = "openrouter" /\ call[1].response.ok

\* Every URL of the text was tried and none could be scraped.
TotalFailure ==
    /\ links_pc = "returned" /\ scrape # <<>>
    /\ \A u \in Urls : ~scrape[u].link.success

\* C21: when every URL found in the text fails to scrape, process_message_links
\* returns the raw text unchanged together with an empty link-metadata list.
C21_TotalFailureReturnsRawAndNoLinks ==
    TotalFailure => links_result[1] = RawText /\ links_result[2] = <<>>

\* C22: concurrent requests share no mutable state but the persistence store:
\* the provider call of one request never waits for, and its outcome never
\* depends on, the call another request has in flight.
C22_RequestsShareNothing ==
    \A r \in Sessions : \A q \in Sessions \ {r} :
        ~(sessions[r].st = "queued" /\ lock = q /\ sessions[q].st = "requesting")

\* This step is a call of add_user_message or add_assistant_message.
AddStep == op'.fn \in AddFns /\ (op' # op \/ docs' # docs)

\* C23: persisting a message raises exactly when the conversation does not
\* exist for that owner, and then leaves the store unchanged; when it exists
\* the call appends exactly one message (file storage and leads storage).
C23_RaisesIffMissing ==
    [][AddStep =>
         LET exists == get_conversation(op'.owner, op'.id)
         IN  /\ op'.raised <=> ~exists
             /\ op'.raised => docs' = docs
             /\ ~op'.raised => docs' = [docs EXCEPT ![op'.id].messages = Append(@, op'.fn)]]_vars

\* Stage 1 has returned and every one of its calls failed.
AllStage1Failed ==
    /\ Len(result.stage1) = NumModels
    /\ \A i \in 1..NumModels : ~result.stage1[i].ok

\* C27: if every stage 1 call fails the pipeline still advances: stage 2 is
\* entered and yields an empty verdict set, stage 3 is still invoked and
\* returns a non-null result, and the request reaches its completed state.
C27_AdvancesWithoutAnswers ==
    AllStage1Failed =>
        /\ pc = "end" /\ ~cancelled /\ outcome # "raised" => starts["stage2"] = 1
        /\ task["stage2"] = "done" => result.stage2 = <<>>
        /\ pc = "end" /\ ~cancelled /\ task["stage2"] = "done" => starts["stage3"] = 1
        /\ task["stage3"] = "done" => result.stage3 = Stage3Result /\ result.stage3 # NoResult
        /\ (pc = "end" /\ outcome = "returned" /\ ~cancelled /\ "error" \notin Range(events)) =>
               /\ Streaming => events[Len(events)] = "complete"
               /\ Len(NewAssistant) >= 1
               /\ \A i \in 1..Len(NewAssistant) :
                      NewAssistant[i] = AssistantMessage(result.stage1, <<>>, Stage3Result)

\* A streaming request ran to completion although no model answered.
C27_Witness ==
    /\ endpoint = "stream" /\ AllStage1Failed /\ pc = "end" /\ outcome = "returned"
    /\ "complete" \in Range(events) /\ "stage2_complete" \in Range(events)
    /\ result.stage2 = <<>> /\ result.stage3 = Stage3Result

\* The models whose stage 1 call succeeded.
Stage1Successes == {stage1_answers[i].model : i \in {j \in Panel : stage1_answers[j].ok}}

EventLabels == stage2_event.metadata.label_to_model

EventRanking == stage2_event.metadata.aggregate_rankings

\* C24: the labels of a request are in bijection with the successful stage 1
\* answers, and the label map resolves every label occurring in any verdict to
\* exactly one model.
C24_LabelsAreABijection ==
    stage2_event # <<>> =>
        /\ \A a \in DOMAIN EventLabels : \A b \in DOMAIN EventLabels :
               EventLabels[a] = EventLabels[b] => a = b
        /\ {EventLabels[a] : a \in DOMAIN EventLabels} = Stage1Successes
        /\ Cardinality(DOMAIN EventLabels) = Len(Successful(stage1_answers))
        /\ \A i \in 1..Len(stage2_event.data) :
               \A p \in 1..Len(stage2_event.data[i].ordering) :
                   stage2_event.data[i].ordering[p] \in DOMAIN EventLabels

\* Two answers were labelled and two judges ranked them.
C24_Witness ==
    /\ stage2_event # <<>> /\ Cardinality(DOMAIN EventLabels) = 2
    /\ Len(stage2_event.data) = 2
    /\ stage2_event.data[1].ordering # stage2_event.data[2].ordering

FirstInEveryVerdict(model) ==
    /\ Len(stage2_event.data) >= 1
    /\ \A i \in 1..Len(stage2_event.data) :
           label_to_model[stage2_event.data[i].ordering[1]] = model

\* C25: aggregation uses Borda points (k-1 for a first place down to 0 for the
\* last, summed per model over the verdicts): no score is negative or above
\* (k-1) * numVerdicts, and a model ranked first in every verdict has exactly
\* that score and is first in the aggregate ranking.
C25_BordaScores ==
    stage2_event # <<>> =>
        LET k == Len(Successful(stage1_answers))
            n == Len(stage2_event.data)
        IN  /\ \A r \in 1..Len(EventRanking) :
                   EventRanking[r].score >= 0 /\ EventRanking[r].score <= (k - 1) * n
            /\ \A model \in Stage1Successes :
                   FirstInEveryVerdict(model) =>
                       /\ EventRanking # <<>>
                       /\ EventRanking[1] = [model |-> model, score |-> (k - 1) * n]

\* Both judges put the second model's answer first.
C25_Witness ==
    /\ stage2_event # <<>> /\ Len(stage2_event.data) = 2 /\ Len(Successful(stage1_answers)) = 2
    /\ FirstInEveryVerdict(2)
    /\ EventRanking = <<[model |-> 2, score |-> 2], [model |-> 1, score |-> 0]>>

Occurrences(seq, x) == Cardinality({i \in 1..Len(seq) : seq[i] = x})

\* The wait of stage t times out in this step: a heartbeat is yielded.
HeartbeatIn(t) == pc = WaitPc(t) /\ pc' = pc /\ timer = HEARTBEAT_INTERVAL /\ timer' = 0

\* The generator is in stage t: waiting on its task, or at its complete event.
InStage(t) == pc' \in {WaitPc(t), IF t = "stage1" THEN "y_stage1_complete" ELSE "y_stage2_complete"}

\* C29: in an uninterrupted streaming session, for stage 1 and stage 2: the
\* model_complete events yielded are, one for one and in callback order,
\* completions the callback recorded, each of a call that has resolved, and
\* none follows the stage's complete event; when a heartbeat is yielded every
\* recorded completion has been reported; and when the stage's complete event
\* is yielded, one model_complete event per callback invocation precedes it.
C29_CompletionsForwarded ==
    [][\A t \in {"stage1", "stage2"} :
          /\ InStage(t) =>
                /\ Len(reported') <= Len(completed')
                /\ reported' = SubSeq(completed', 1, Len(reported'))
                /\ \A i \in 1..Len(reported') : \A j \in 1..Len(reported') :
                       reported'[i] = reported'[j] => i = j
                /\ task'[t] = "running" =>
                       \A i \in 1..Len(completed') : calls'[completed'[i]] \in {"ok", "fail"}
                /\ Occurrences(events', ModelEvent(t)) = Len(reported')
          /\ pc' = WaitPc(t) => CompleteEvent(t) \notin Range(events')
          /\ HeartbeatIn(t) => reported' = completed
          /\ CompletionYielded(t) =>
                /\ reported' = completed
                /\ Occurrences(events', ModelEvent(t)) = Len(completed)
                /\ \A i \in 1..Len(events') : \A j \in 1..Len(events') :
                       (events'[i] = ModelEvent(t) /\ events'[j] = CompleteEvent(t)) => i < j]_vars

\* Stage 1 was reported in full; in stage 2 one completion was reported at a
\* heartbeat and a second one waits for the next drain.
C29_Witness ==
    /\ pc = "w_stage2" /\ Len(reported) = 1 /\ Len(completed) = 2
    /\ "stage1_complete" \in Range(events)
    /\ Occurrences(events, "stage1_model_complete") = NumModels

\* C30: whatever the order in which the calls completed, the returned map has
\* the requested identifiers as keys and associates each with the response of
\* a call made for that identifier (the last such position of the list), never
\* with the response of a call made for another identifier.
C30_OwnResult ==
    fan_pc = "returned" =>
        /\ DOMAIN returned = Range(models)
        /\ \A id \in DOMAIN returned :
               /\ \E i \in Calls :
                      /\ models[i] = id /\ \A j \in Calls : j > i => models[j] # id
                      /\ returned[id] = call[i].response
               /\ returned[id].ok => models[returned[id].call] = id

\* Two different models both answered, the second one sooner than the first.
C30_Witness ==
    /\ fan_pc = "returned" /\ Len(models) = 2 /\ models[1] # models[2]
    /\ call[1].response.ok /\ call[2].response.ok
    /\ overtaken
    /\ returned[models[1]].call = 1 /\ returned[models[2]].call = 2

\* The terminal events yielded so far.
Terminals(evs) == Occurrences(evs, "complete") + Occurrences(evs, "error")

\* C31: a streaming session yields at most one terminal event (complete or
\* error, never both); once a terminal event has been yielded, or the session
\* has been cancelled, no event is yielded and no task is created.
C31_TerminalIsAbsorbing ==
    [][Streaming =>
          /\ Terminals(events') <= 1
          /\ cancelled' => events' = events
          /\ (Terminals(events) = 1 \/ cancelled) => (events' = events /\ starts' = starts)]_vars

\* The session ended with an error event while the title task it started was
\* still running: the system goes on taking steps after the terminal event.
C31_Witness ==
    /\ Streaming /\ pc = "end" /\ outcome = "returned"
    /\ events # <<>> /\ events[Len(events)] = "error"
    /\ task["title"] = "running"

\* C32: in a streaming session the complete event is yielded only once the
\* assistant message holding the results of all three stages is stored, and a
\* session that yielded an error event has stored no assistant message.
C32_CompleteAfterPersisted ==
    Streaming =>
        /\ "complete" \in Range(events) =>
              /\ \A t \in Stages : task[t] = "done"
              /\ NewAssistant = <<AssistantMessage(result.stage1, result.stage2, result.stage3)>>
              /\ result.stage3 # NoResult
              /\ Len(result.stage1) = NumModels
        /\ "error" \in Range(events) => NewAssistant = <<>>

\* A leads session has completed: the awaited update stored the message before
\* complete was yielded.
C32_Witness ==
    /\ endpoint = "leads" /\ "complete" \in Range(events) /\ Len(NewAssistant) = 1
    /\ "title_complete" \in Range(events)

\* A task the session started that is neither finished nor cancelled.
StillRunning(t) == t \in Range(running_tasks) /\ task[t] \in {"running", "cancel_requested"}

\* C33: when a streaming session has ended (by complete, by error or by
\* cancellation), no task it started is still running.
C33_NoTaskOutlivesSession ==
    (Streaming /\ pc = "end") => \A t \in Tasks : ~StillRunning(t)

\* The cancellation came while the stage 1 task was not created yet or running.
CancelledBeforeStage1Resolved ==
    Streaming /\ cancelled /\ cancelAt.task["stage1"] \in {"none", "running"}

\* C34: a streaming session cancelled before the stage 1 task has resolved
\* stores no assistant message, so the answers of the calls that had resolved
\* are dropped, and the user message stored at the start of the session stays:
\* it is the only message the session added (none if the cancellation came
\* before the awaited add_user_message of the leads session took effect).
C34_CancelBeforeStage1 ==
    CancelledBeforeStage1Resolved =>
        /\ NewAssistant = <<>>
        /\ NewMessages \in {<<>>, <<UserMessage>>}
        /\ cancelAt.pc # "a_add_user" => NewMessages = <<UserMessage>>

\* Cancelled in stage 1 after one model had answered; the handler has dropped
\* the answer and waits for the cancelled tasks.
C34_Witness ==
    /\ CancelledBeforeStage1Resolved /\ cancelAt.pc = "w_stage1" /\ pc = "h_gather"
    /\ task["stage1"] = "cancel_requested" /\ \E m \in Models : calls[m] = "ok"
    /\ NewMessages = <<UserMessage>>

\* The requests whose GigaChat query is executing.
GigaChatRunning ==
    {r \in Sessions : sessions[r].adapter = "gigachat" /\ sessions[r].st = "requesting"}

\* With GIGACHAT_PARALLEL_DISABLED at most one GigaChat query executes, and
\* the lock is held by nobody but the request whose query executes.
GigaChatSerialized ==
    parallel_disabled =>
        /\ Cardinality(GigaChatRunning) <= 1
        /\ lock # 0 => GigaChatRunning = {lock}
        /\ lock = 0 => GigaChatRunning = {}

\* C35: with GIGACHAT_PARALLEL_DISABLED at most one GigaChat query executes at
\* any time across all requests; the lock is free again whenever the query
\* holding it has ended (by success, failure, timeout or cancellation); and
\* every call waiting for the lock eventually leaves the wait, given that
\* every running query terminates.
C35_LockSerializesAndIsReleased ==
    /\ []GigaChatSerialized
    /\ \A r \in 1..NumRequests : (sessions[r].st = "queued") ~> (sessions[r].st # "queued")

\* The request that held the lock was cancelled while its query ran; the lock
\* is free and the other request's call, which waited for it, can take it.
C35_Witness ==
    /\ parallel_disabled /\ lock = 0
    /\ \E r \in Sessions : \E q \in Sessions \ {r} :
           /\ sessions[r].cause = "cancelled" /\ sessions[r].requests = 1
           /\ sessions[q].st = "queued"

\* The personalization prompt a stage invocation works with: the callee's
\* default, no personalization, when the argument is not passed.
Personalization(rec) == IF rec.personal_prompt = Absent THEN "" ELSE rec.personal_prompt

\* C36: every stage 1 invocation, of the streaming entry point as of the
\* non-streaming one, is supplied the enriched question, the base identity
\* prompt in force and the user's personalization prompt.
C36_SameInputsToStage1 ==
    \A i \in 1..Len(invocations) :
        invocations[i].stage = "stage1" =>
            /\ invocations[i].content = inputs.content
            /\ invocations[i].base_system_prompt = BaseSystemPrompt(inputs)
            /\ Personalization(invocations[i]) = inputs.personal_prompt

\* A conversation of the store that was created under another owner id.
Foreign(owner, id) == docs[id].present /\ docs[id].owner # owner

\* This step is a storage call made with the owner id.
CallBy(owner) == op' # op /\ op'.owner = owner

\* C37: in file storage a conversation created under one owner id is not
\* returned by get_conversation called with a different owner id, and no
\* storage call made with a different owner id modifies or deletes it.
C37_OwnersIsolated ==
    [][store_kind = "file" =>
          \A owner \in Owners : \A id \in ConvIds :
              /\ Foreign(owner, id) => ~get_conversation(owner, id)
              /\ (Foreign(owner, id) /\ CallBy(owner)) => docs'[id] = docs[id]]_vars

\* The leads conversation id carries deleted_at: a delete_conversation call
\* of its owner has returned True for it.
SoftDeleted(id) == store_kind = "leads" /\ docs[id].present /\ docs[id].deleted

\* This step is a call of fn by the owner of conversation id.
OwnerCalls(id, fns) == op' # op /\ op'.fn \in fns /\ op'.id = id /\ op'.owner = docs[id].owner

\* C40: in leads storage, once delete_conversation has returned True for a
\* conversation it is not returned by get_conversation, a second delete
\* returns False, and every later add_user_message, add_assistant_message
\* or update_conversation_title fails as not found and leaves it unmodified.
C40_DeletedStaysDeleted ==
    [][\A id \in ConvIds : SoftDeleted(id) =>
          /\ ~get_conversation(docs[id].owner, id)
          /\ OwnerCalls(id, {"delete_conversation"}) => (~op'.returned /\ docs' = docs)
          /\ OwnerCalls(id, AddFns \cup {"update_conversation_title"}) =>
                (op'.raised /\ docs'[id] = docs[id])]_vars

\* The last dependency call accepted the presented token as a credential.
AcceptedBy(dep) ==
    auth_result.dep = dep /\ auth_result.st = "accepted" /\ ~auth_result.bypassed

\* C38: the two token kinds are not interchangeable: get_current_user never
\* accepts a token issued by create_leads_token, and get_current_lead never
\* accepts a token that was not.
C38_TokenKindsNotInterchangeable ==
    /\ AcceptedBy("get_current_user") => auth_result.token.payload.token_type # "lead"
    /\ AcceptedBy("get_current_lead") => auth_result.token.payload.token_type = "lead"

\* The half of C38 that holds: get_current_lead accepts leads tokens only.
LeadsDependencyRejectsUserTokens ==
    AcceptedBy("get_current_lead") => auth_result.token.payload.token_type = "lead"

\* user, assistant, user, assistant, ...
Alternates(roles) ==
    \A i \in 1..Len(roles) : roles[i] = IF i % 2 = 1 THEN "user" ELSE "assistant"

\* No request on the conversation is under way.
Quiescent == \A r \in DOMAIN turns : turns[r].pc \in {"idle", "done"}

\* C39: after any sequence of requests on a conversation (concurrent, failed
\* and cancelled ones included) the stored message list strictly alternates
\* user, assistant, user, assistant.
C39_MessagesAlternate == (turns # <<>> /\ Quiescent) => Alternates(thread)

====
